---- MODULE Spec2Model ----
(***************************************************************************)
(* NutriScore+ backend (src/backend/app.py): users, food items,            *)
(* consumption entries and the profile-change audit trail behind the       *)
(* Flask handlers, with the relational store modelled as tables.           *)
(*                                                                         *)
(* Numbers.  Heights, weights, nutrition facts and portion sizes are       *)
(* integers.  The unit conversions and the goal multiplier are decimal     *)
(* fractions, so a quantity is kept as a fixed-point triple <<i, a, b>>    *)
(* standing for i + a/10^4 + b/10^8 with 0 <= a, b < 10^4; every limb      *)
(* stays far below 2^31.  Python's None is the string None for text        *)
(* columns and NoneNum for numeric ones; a key that a JSON payload does    *)
(* not carry is Absent / AbsentNum, and a numeric key that carries text    *)
(* which is not a number is NotNumber.                                     *)
(***************************************************************************)
EXTENDS Integers, Sequences, FiniteSets, TLC

None      == "<null>"
Absent    == "<absent>"
NoneNum   == 0 - 1
AbsentNum == 0 - 2
\* a JSON value that float() rejects with ValueError, such as the string abc
NotNumber == 0 - 3
\* the floats nan and inf, which float() returns for NaN, "nan", Infinity, "inf"
NaN       == 0 - 4
Infinity  == 0 - 5

Limb == 100 * 100

(***************************************************************************)
(* Fixed-point helpers                                                     *)
(***************************************************************************)
FxNorm(i, a, b) ==
    LET a2 == a + (b \div Limb)
    IN  << i + (a2 \div Limb), a2 % Limb, b % Limb >>

FxInt(n) == << n, 0, 0 >>

FxScale(x, n) == FxNorm(x[1] * n, x[2] * n, x[3] * n)

FxAdd(x, y) == FxNorm(x[1] + y[1], x[2] + y[2], x[3] + y[3])

FxLtInt(x, n) == x[1] < n

FxGtInt(x, n) == x[1] > n \/ (x[1] = n /\ (x[2] > 0 \/ x[3] > 0))

(***************************************************************************)
(* Domain calculators (app.py, HELPER FUNCTIONS)                           *)
(***************************************************************************)
\* truncation in place of rounding: what C25 rules out
pytrunc(num, den) == num \div den

\* round(x) of Python 3 for x = num/den >= 0: nearest integer, ties to even
pyround(num, den) ==
    LET q == num \div den
        r == num % den
    IN  IF 2 * r > den THEN q + 1
        ELSE IF 2 * r < den THEN q
        ELSE IF q % 2 = 0 THEN q ELSE q + 1

\* score in hundredths; the float score is 70 + 50*p/c + 5*f - 2.5*s
calculate_health_score(calories, protein, fiber, sugars) ==
    IF calories <= 0 THEN 0
    ELSE LET protein_score == pyround(protein * 5000, calories)
             fiber_score   == fiber * 500
             sugar_penalty == sugars * 250
             score         == 7000 + protein_score + fiber_score - sugar_penalty
         IN  IF score > 10000 THEN 10000 ELSE IF score < 0 THEN 0 ELSE score

_to_cm(height_value, height_unit) ==
    IF height_unit = "in"
    THEN FxNorm(0, height_value * 254 * 100, 0)
    ELSE FxInt(height_value)

_to_kg(weight_value, weight_unit) ==
    IF weight_unit = "lb"
    THEN FxScale(<< 0, 4535, 9237 >>, weight_value)
    ELSE FxInt(weight_value)

\* every goal at 1.00: what C23 rules out
multipliers_flat(dietary_goal) == 100

multipliers(dietary_goal) ==
    CASE dietary_goal = "weight_loss" -> 80
      [] dietary_goal = "maintain"    -> 100
      [] dietary_goal = "eat_healthy" -> 100
      [] dietary_goal = "weight_gain" -> 115
      [] OTHER                        -> 100

\* largest power of two that is <= v (v >= 1): the binade of a double
RECURSIVE pow2floor(_, _)
pow2floor(v, p) == IF 2 * p <= v THEN pow2floor(v, 2 * p) ELSE p

\* baseline * mult in doubles, at an exact tie 10k + 5 of the real product.
\* 1.00 and 0.80 give the tie itself.  The double nearest 1.15 is
\* 1.15 - 0.4 * 2^-52, so baseline * 1.15 is the tie only while the error
\* baseline * 0.4 * 2^-52 stays under half an ulp of the product, that is
\* while 4 * baseline < 5 * 2^e with 2^e <= product < 2^(e+1); otherwise
\* it is the double just below the tie.
float_below_tie(baseline_int, mult100, product_int) ==
    /\ mult100 = 115
    /\ product_int >= 1
    /\ 4 * baseline_int >= 5 * pow2floor(product_int, 1)

\* max(1200, rounded), the upper limit forgotten: what C22 rules out
clamp_below(rounded) == IF rounded < 1200 THEN 1200 ELSE rounded

\* a range check that falls back to the minimum: what C24 rules out
clamp_or_floor(rounded) ==
    IF rounded > 4000 \/ rounded < 1200 THEN 1200 ELSE rounded

\* max(1200, min(4000, rounded))
clamp(rounded) ==
    IF rounded > 4000 THEN 4000 ELSE IF rounded < 1200 THEN 1200 ELSE rounded

calculate_target_calories(height_value, height_unit, weight_value, weight_unit, dietary_goal) ==
    LET h_cm     == _to_cm(height_value, height_unit)
        w_kg     == _to_kg(weight_value, weight_unit)
        baseline == FxAdd(FxScale(w_kg, 22), FxScale(h_cm, 6))
        mult     == multipliers(dietary_goal)
        \* raw4 = raw * 10^4 = baseline * 100 * (100 * mult)
        raw4     == FxScale(FxScale(baseline, 100), mult)
        q        == raw4[1] \div 100000
        r        == raw4[1] % 100000
        frac     == raw4[2] > 0 \/ raw4[3] > 0
        \* round(raw / 10.0): nearest, ties to even
        tens     == IF r > 50000 \/ (r = 50000 /\ frac) THEN q + 1
                    ELSE IF r < 50000 THEN q
                    ELSE IF float_below_tie(baseline[1], mult, raw4[1] \div 10000) THEN q
                    ELSE IF q % 2 = 0 THEN q ELSE q + 1
        rounded  == tens * 10
    IN  clamp(rounded)

_unrealistic(height_cm, weight_kg) ==
    \/ FxLtInt(height_cm, 100)
    \/ FxGtInt(height_cm, 250)
    \/ FxLtInt(weight_kg, 30)
    \/ FxGtInt(weight_kg, 300)

(***************************************************************************)
(* Bounds and input domains                                                *)
(***************************************************************************)
MaxUsers   == 2
MaxFoods   == 1
MaxEntries == 1
MaxAudit   == 1

Sessions   == {"c1"}

\* username and password of the login and signup requests
Credentials ==
    { << "admin", "admin123" >>, << "ann", "secret1" >>, << "ann", "short" >>,
      << "", "secret1" >> }

\* JSON bodies of the profile and user-management requests.  A text key that
\* is missing is Absent, a numeric one AbsentNum; confirm_unrealistic is
\* FALSE when missing or falsy.
EmptyData ==
    [ username |-> Absent, role |-> Absent, dietary_goal |-> Absent,
      height_value |-> AbsentNum, height_unit |-> Absent,
      weight_value |-> AbsentNum, weight_unit |-> Absent,
      target_calories |-> AbsentNum, confirm_unrealistic |-> FALSE ]

\* 170 cm / 70 kg is realistic, 90 cm and 310 kg are not; an unknown unit
\* counts as cm, and the unit spelled None prints like a missing one
ProfileData ==
    { EmptyData,
      [EmptyData EXCEPT !.height_value = 170, !.weight_value = 70],
      [EmptyData EXCEPT !.height_value = 90, !.weight_value = 70],
      [EmptyData EXCEPT !.height_value = 90, !.weight_value = 70,
                        !.confirm_unrealistic = TRUE],
      [EmptyData EXCEPT !.height_value = 170, !.weight_value = 70,
                        !.height_unit = "None"],
      [EmptyData EXCEPT !.dietary_goal = "weight_gain", !.target_calories = 9999],
      [EmptyData EXCEPT !.height_value = 0],
      [EmptyData EXCEPT !.height_value = NotNumber, !.weight_value = 70],
      [EmptyData EXCEPT !.height_value = 170, !.weight_value = 70,
                        !.dietary_goal = "bulk"] }

FullData(h, hu, w, wu, goal) ==
    [EmptyData EXCEPT !.height_value = h, !.height_unit = hu,
                      !.weight_value = w, !.weight_unit = wu,
                      !.dietary_goal = goal]

CompleteData ==
    { [FullData(170, "cm", 70, "kg", "weight_loss") EXCEPT !.target_calories = 9999],
      FullData(170, "cm", 310, "kg", "maintain"),
      [FullData(170, "cm", 310, "kg", "maintain") EXCEPT !.confirm_unrealistic = TRUE],
      FullData(90, "ft", 70, "kg", "maintain"),
      [FullData(170, "cm", 70, "kg", "maintain") EXCEPT !.weight_unit = Absent],
      FullData(NotNumber, "cm", 70, "kg", "maintain") }

AdminData ==
    { EmptyData,
      [EmptyData EXCEPT !.role = "user", !.target_calories = 9999],
      [EmptyData EXCEPT !.height_value = 170, !.weight_value = 70,
                        !.target_calories = 9999],
      [EmptyData EXCEPT !.weight_value = 310],
      [EmptyData EXCEPT !.weight_value = 310, !.confirm_unrealistic = TRUE],
      [EmptyData EXCEPT !.role = "root"] }

CreateData ==
    { [FullData(170, "cm", 70, "kg", Absent) EXCEPT !.username = "bob",
                                                    !.target_calories = 9999],
      [FullData(90, "in", 70, "lb", "weight_gain") EXCEPT !.username = "bob",
                                                          !.role = "admin"],
      [FullData(90, "cm", 70, "kg", "maintain") EXCEPT !.username = "bob"],
      [FullData(90, "cm", 70, "kg", "maintain") EXCEPT !.username = "bob",
                                                       !.confirm_unrealistic = TRUE],
      FullData(170, "cm", 70, "kg", "maintain"),
      [FullData(170, "cm", NotNumber, "kg", "maintain") EXCEPT !.username = "bob"],
      [FullData(170, "cm", 70, "kg", "bulk") EXCEPT !.username = "bob"] }

\* JSON bodies of the food requests; extra stands for a key the handler
\* does not know
NoFood ==
    [ food_name |-> Absent, calories |-> AbsentNum, protein |-> AbsentNum,
      carbs |-> AbsentNum, fat |-> AbsentNum, fiber |-> AbsentNum,
      sugars |-> AbsentNum, nutrition_density |-> AbsentNum, extra |-> FALSE ]

Facts(name, calories, protein, carbs, fat, fiber, sugars) ==
    [ NoFood EXCEPT !.food_name = name, !.calories = calories,
                    !.protein = protein, !.carbs = carbs, !.fat = fat,
                    !.fiber = fiber, !.sugars = sugars ]

FoodData ==
    { Facts("oats", 100, 10, 20, 5, 5, 2),
      [Facts("soda", 40, 0, 10, 0, 0, 10) EXCEPT !.sugars = AbsentNum] }

FoodPatch ==
    { NoFood,
      [NoFood EXCEPT !.extra = TRUE],
      [NoFood EXCEPT !.calories = 50, !.protein = 20] }

\* JSON bodies of the consumption requests
NoEntry ==
    [ user_id |-> AbsentNum, food_id |-> AbsentNum, date |-> Absent,
      portion_size |-> AbsentNum, meal_type |-> Absent,
      calories |-> AbsentNum, protein |-> AbsentNum, carbs |-> AbsentNum,
      fat |-> AbsentNum, fiber |-> AbsentNum, sugars |-> AbsentNum,
      health_score |-> AbsentNum ]

EntryData ==
    { [NoEntry EXCEPT !.food_id = 1, !.date = "d1"],
      [NoEntry EXCEPT !.food_id = 1, !.date = "d1", !.user_id = 1,
                      !.portion_size = 2],
      [NoEntry EXCEPT !.food_id = 2, !.date = "d1", !.user_id = 2,
                      !.meal_type = "lunch", !.calories = 7],
      [NoEntry EXCEPT !.food_id = 1, !.date = "d1", !.user_id = 3],
      [NoEntry EXCEPT !.food_id = 1],
      [NoEntry EXCEPT !.food_id = 1, !.date = "d1", !.user_id = 1,
                      !.portion_size = NotNumber] }

EntryPatch ==
    { NoEntry,
      [NoEntry EXCEPT !.portion_size = 3, !.calories = 7],
      [NoEntry EXCEPT !.calories = 7],
      [NoEntry EXCEPT !.meal_type = "lunch"],
      [NoEntry EXCEPT !.user_id = 1],
      [NoEntry EXCEPT !.portion_size = NotNumber] }

\* the login requests: bob is the user an admin creates, with no password
LoginCredentials == Credentials \cup { << "bob", "password" >> }

\* the accounts the food and consumption requests are made from
FoodCredentials == { << "admin", "admin123" >>, << "ann", "secret1" >> }

(***************************************************************************)
(* State                                                                   *)
(***************************************************************************)
VARIABLES
    users,                 \* table users: user_id -> row
    user_seq,              \* last user_id handed out by the SERIAL column
    food_items,            \* table food_items: food_id -> row
    food_seq,
    consumption,           \* table consumption: entry_id -> row
    entry_seq,
    user_profile_changes,  \* table user_profile_changes, in insertion order
    session,               \* session["user"] of every client cookie
    bootstrap_done,        \* app._bootstrap_done
    has_ownership,         \* food_items has the column created_by_user_id
    threads,               \* the requests in flight: position and local values
    call,                  \* the latest call of a calculator and what it returned
    audit_failures,        \* audit writes lost to a storage failure so far
    resp                   \* the response to the latest request

vars == << users, user_seq, food_items, food_seq, consumption, entry_seq,
           user_profile_changes, session, bootstrap_done, has_ownership, threads, call,
           audit_failures, resp >>

food_vars == << food_items, food_seq, consumption, entry_seq >>

NoSession == [user_id |-> 0, username |-> None, role |-> None]

\* the worker threads of the server, and a thread with no request
Threads == {"t1", "t2", "t3"}

\* runs counts the executions of ensure_admin_bootstrap by the thread, read
\* is what the request in progress has read from storage
Idle == [pc |-> "idle", runs |-> 0, read |-> None]

NoCall == [fn |-> None]

NoRows == {}

Response(op, sid, status) ==
    [ op |-> op, sid |-> sid, status |-> status, target |-> 0,
      requires_confirmation |-> FALSE, preview_target_calories |-> NoneNum,
      rows |-> NoRows, error |-> None ]

\* jsonify({"error": text}), status: the refusals of login and signup
Refusal(op, sid, status, text) == [Response(op, sid, status) EXCEPT !.error = text]

\* rows of a function-shaped table without the key id
DeleteRow(table, id) == [i \in DOMAIN table \ {id} |-> table[i]]

\* ownership: the schema has food_items.created_by_user_id
Init(ownership) ==
    /\ users = << >>
    /\ user_seq = 0
    /\ food_items = << >>
    /\ food_seq = 0
    /\ consumption = << >>
    /\ entry_seq = 0
    /\ user_profile_changes = << >>
    /\ session = [c \in Sessions |-> NoSession]
    /\ bootstrap_done = FALSE
    /\ has_ownership = ownership
    /\ threads = [t \in Threads |-> Idle]
    /\ call = NoCall
    /\ audit_failures = 0
    /\ resp = Response("start", "c1", 0)

(***************************************************************************)
(* AUTH / RBAC                                                             *)
(***************************************************************************)
generate_password_hash(password) == << "hash", password >>

\* a check that any password passes: what C19 rules out
check_nothing(pwhash, password) == TRUE

check_password_hash(pwhash, password) == pwhash = << "hash", password >>

NoHash == << >>

_current_user(c) == session[c]

Authenticated(c) == _current_user(c) # NoSession

UserRow(username, role, password_hash) ==
    [ username |-> username, role |-> role, password_hash |-> password_hash,
      dietary_goal |-> "maintain", target_calories |-> 2000,
      height_value |-> NoneNum, height_unit |-> None,
      weight_value |-> NoneNum, weight_unit |-> None ]

Roles == {"user", "admin"}

Goals == {"weight_loss", "maintain", "eat_healthy", "weight_gain"}

\* a users table that leaves role unconstrained: what C17 rules out
users_check_goal(row) == row.dietary_goal \in Goals

\* the domains of the columns role and dietary_goal of the users table: a
\* statement that would store another value, NULL included, raises
users_check(row) == row.role \in Roles /\ row.dietary_goal \in Goals

\* a lookup that never finds the username: what C18 rules out
UsernameNeverTaken(u, username) == FALSE

UsernameTaken(u, username) == \E i \in DOMAIN u : u[i].username = username

\* the users table and the sequence after ensure_admin_bootstrap
ensure_admin_bootstrap(u, seq) ==
    LET admins == {i \in DOMAIN u : u[i].role = "admin"}
        first  == CHOOSE i \in admins : \A j \in admins : i <= j
        u1 == IF admins = {}
              THEN IF UsernameTaken(u, "admin") THEN u
                   ELSE u @@ ((seq + 1) :>
                        UserRow("admin", "admin", generate_password_hash("admin123")))
              ELSE IF u[first].password_hash = NoHash
                   THEN [u EXCEPT ![first].password_hash =
                                      generate_password_hash("admin123")]
                   ELSE u
        \* a failed INSERT aborts the transaction: the demo update is skipped
        failed == admins = {} /\ UsernameTaken(u, "admin")
        u2 == IF failed THEN u
              ELSE [i \in DOMAIN u1 |->
                      IF u1[i].password_hash = NoHash /\ u1[i].username # "admin"
                      THEN [u1[i] EXCEPT !.password_hash =
                                             generate_password_hash("password")]
                      ELSE u1[i]]
    IN  [ users |-> u2,
          seq   |-> IF admins = {} /\ ~failed THEN seq + 1 ELSE seq ]

\* @app.before_request: the state every handler starts from
_bootstrap_once ==
    IF bootstrap_done
    THEN [users |-> users, seq |-> user_seq]
    ELSE ensure_admin_bootstrap(users, user_seq)

login(c, username, password) ==
    LET b == _bootstrap_once
        matches == {i \in DOMAIN b.users : b.users[i].username = username}
        ok == /\ matches # {}
              /\ \E i \in matches :
                    /\ b.users[i].password_hash # NoHash
                    /\ check_password_hash(b.users[i].password_hash, password)
    IN  /\ bootstrap_done' = TRUE
        /\ users' = b.users
        /\ user_seq' = b.seq
        /\ IF username = "" \/ password = ""
           THEN /\ resp' = Refusal("login", c, 400, "Username and password are required")
                /\ UNCHANGED session
           ELSE IF ~ok
           THEN /\ resp' = Refusal("login", c, 401, "Invalid username or password")
                /\ UNCHANGED session
           ELSE LET i == CHOOSE i \in matches : TRUE
                IN  /\ session' = [session EXCEPT ![c] =
                            [user_id |-> i, username |-> b.users[i].username,
                             role |-> b.users[i].role]]
                    /\ resp' = [Response("login", c, 200) EXCEPT !.target = i]
        /\ UNCHANGED << food_vars, user_profile_changes, has_ownership, threads, call, audit_failures >>

\* a login while storage cannot be reached: get_conn raises, in
\* ensure_admin_bootstrap, where it is swallowed and the flag is set all the
\* same, and then in the handler
login_storage_down(c, username, password) ==
    /\ bootstrap_done' = TRUE
    /\ resp' = IF username = "" \/ password = ""
               THEN Refusal("login", c, 400, "Username and password are required")
               ELSE Refusal("login", c, 500, "connection failed")
    /\ UNCHANGED << users, user_seq, food_vars, user_profile_changes, session,
                    has_ownership, threads, call, audit_failures >>

logout(c) ==
    LET b == _bootstrap_once
    IN  /\ bootstrap_done' = TRUE
        /\ users' = b.users
        /\ user_seq' = b.seq
        /\ session' = [session EXCEPT ![c] = NoSession]
        /\ resp' = Response("logout", c, 200)
        /\ UNCHANGED << food_vars, user_profile_changes, has_ownership, threads, call, audit_failures >>

signup(c, username, password) ==
    LET b == _bootstrap_once
    IN  /\ bootstrap_done' = TRUE
        /\ IF username = "" \/ password = "" \/ Len(password) < 6
              \/ UsernameTaken(b.users, username)
           THEN /\ resp' = Refusal("signup", c, 400,
                               IF username = "" \/ password = ""
                               THEN "Username and password are required"
                               ELSE IF Len(password) < 6
                               THEN "Password must be at least 6 characters"
                               ELSE "Username already exists")
                /\ users' = b.users
                /\ user_seq' = b.seq
                /\ UNCHANGED session
           ELSE /\ b.seq < MaxUsers
                /\ users' = b.users @@ ((b.seq + 1) :>
                       UserRow(username, "user", generate_password_hash(password)))
                /\ user_seq' = b.seq + 1
                /\ session' = [session EXCEPT ![c] =
                       [user_id |-> b.seq + 1, username |-> username, role |-> "user"]]
                /\ resp' = [Response("signup", c, 201) EXCEPT !.target = b.seq + 1]
        /\ UNCHANGED << food_vars, user_profile_changes, has_ownership, threads, call, audit_failures >>

(***************************************************************************)
(* Payload and row helpers                                                 *)
(***************************************************************************)
NumKeys == {"height_value", "weight_value", "target_calories"}

\* k in data
InData(data, k) == IF k \in NumKeys THEN data[k] # AbsentNum ELSE data[k] # Absent

\* k in data and data[k] is not None
Given(data, k) ==
    /\ InData(data, k)
    /\ IF k \in NumKeys THEN data[k] # NoneNum ELSE data[k] # None

\* not data: the JSON body is missing or an empty object
NoData(data) ==
    /\ \A k \in DOMAIN data \ {"confirm_unrealistic"} : ~InData(data, k)
    /\ ~data.confirm_unrealistic

\* not value, for a numeric column
Falsy(value) == value = NoneNum \/ value = 0

\* float(value) raises: TypeError for None, ValueError for text
NoFloat(value) == value \in {NoneNum, NotNumber}

\* dict.get(key, default) on a payload
Get(data, k, default) == IF InData(data, k) THEN data[k] ELSE default

\* a merge that also takes target_calories from the payload: what C1 rules out
ComposeTrusting(old_row, data, keys) ==
    [k \in DOMAIN old_row |->
        IF (k \in keys \/ k = "target_calories") /\ Given(data, k)
        THEN data[k] ELSE old_row[k]]

\* new_row = dict(old_row) overwritten by the given keys of data
Compose(old_row, data, keys) ==
    [k \in DOMAIN old_row |->
        IF k \in keys /\ Given(data, k) THEN data[k] ELSE old_row[k]]

\* str(value) of a column value: None prints as the word None
pystr(k, value) ==
    IF k \in NumKeys THEN value
    ELSE IF value = None THEN "None" ELSE value

Tracked == {"height_value", "height_unit", "weight_value", "weight_unit",
            "dietary_goal", "target_calories"}

\* a comparison that leaves the derived target out: what C3 rules out
changed_inputs(old_row, new_row) ==
    {k \in Tracked \ {"target_calories"} : old_row[k] # new_row[k]}

\* the keys _audit_profile_change collects in changed
changed_keys(old_row, new_row) ==
    {k \in Tracked : pystr(k, old_row[k]) # pystr(k, new_row[k])}

\* the table user_profile_changes after a _audit_profile_change that returns
_audit_profile_change(changes, target_user_id, changed_by, old_row, new_row) ==
    LET changed == changed_keys(old_row, new_row)
    IN  IF changed = {} THEN changes
        ELSE Append(changes,
                [ user_id            |-> target_user_id,
                  changed_by_user_id |-> changed_by.user_id,
                  changed_by_role    |-> changed_by.role,
                  changed_fields     |-> [k \in changed |->
                                            [from |-> old_row[k], to |-> new_row[k]]] ])

\* _audit_profile_change returns
audit_written(target_user_id, changed_by, old_row, new_row) ==
    /\ user_profile_changes' =
         _audit_profile_change(user_profile_changes, target_user_id,
                               changed_by, old_row, new_row)
    /\ Len(user_profile_changes') + audit_failures <= MaxAudit
    /\ UNCHANGED audit_failures

\* the INSERT of _audit_profile_change is reached and raises, storage being
\* down for it (or, in complete_profile, for the SELECT of the old row)
audit_lost(old_row, new_row) ==
    /\ changed_keys(old_row, new_row) # {}
    /\ Len(user_profile_changes) + audit_failures < MaxAudit
    /\ audit_failures' = audit_failures + 1
    /\ UNCHANGED user_profile_changes

RowTarget(row) ==
    calculate_target_calories(row.height_value, row.height_unit,
                              row.weight_value, row.weight_unit, row.dietary_goal)

\* a gate that looks at the height alone: what C4 rules out
HeightUnrealistic(row) ==
    LET height_cm == _to_cm(row.height_value, row.height_unit)
    IN  FxLtInt(height_cm, 100) \/ FxGtInt(height_cm, 250)

RowUnrealistic(row) ==
    _unrealistic(_to_cm(row.height_value, row.height_unit),
                 _to_kg(row.weight_value, row.weight_unit))

Confirmation(op, c, row) ==
    [Response(op, c, 400) EXCEPT !.requires_confirmation = TRUE,
                                 !.preview_target_calories = RowTarget(row)]

(***************************************************************************)
(* Profile                                                                 *)
(***************************************************************************)
ProfileKeys == {"dietary_goal", "height_value", "height_unit",
                "weight_value", "weight_unit"}

update_profile(c, data) ==
    LET b       == _bootstrap_once
        current == _current_user(c)
        uid     == current.user_id
    IN  /\ bootstrap_done' = TRUE
        /\ user_seq' = b.seq
        /\ IF ~Authenticated(c)
           THEN /\ resp' = Response("update_profile", c, 401)
                /\ users' = b.users
                /\ UNCHANGED << user_profile_changes, audit_failures >>
           ELSE IF NoData(data)
           THEN /\ resp' = Response("update_profile", c, 400)
                /\ users' = b.users
                /\ UNCHANGED << user_profile_changes, audit_failures >>
           ELSE IF uid \notin DOMAIN b.users
           THEN /\ resp' = Response("update_profile", c, 404)
                /\ users' = b.users
                /\ UNCHANGED << user_profile_changes, audit_failures >>
           ELSE LET old_row == b.users[uid]
                    new_row == Compose(old_row, data, ProfileKeys)
                    row     == [new_row EXCEPT !.target_calories = RowTarget(new_row)]
                IN  IF Falsy(new_row.height_value) \/ Falsy(new_row.weight_value)
                    THEN /\ resp' = Response("update_profile", c, 400)
                         /\ users' = b.users
                         /\ UNCHANGED << user_profile_changes, audit_failures >>
                    \* float() of the payload's text raises ValueError
                    ELSE IF NoFloat(new_row.height_value) \/ NoFloat(new_row.weight_value)
                    THEN /\ resp' = Response("update_profile", c, 500)
                         /\ users' = b.users
                         /\ UNCHANGED << user_profile_changes, audit_failures >>
                    ELSE IF RowUnrealistic(new_row) /\ ~data.confirm_unrealistic
                    THEN /\ resp' = Confirmation("update_profile", c, new_row)
                         /\ users' = b.users
                         /\ UNCHANGED << user_profile_changes, audit_failures >>
                    \* the UPDATE raises on a value outside the column's domain
                    ELSE IF ~users_check(row)
                    THEN /\ resp' = Response("update_profile", c, 500)
                         /\ users' = b.users
                         /\ UNCHANGED << user_profile_changes, audit_failures >>
                    \* the UPDATE is committed before the audit INSERT runs
                    ELSE /\ users' = [b.users EXCEPT ![uid] = row]
                         /\ \/ /\ audit_written(uid, current, old_row, row)
                               /\ resp' = [Response("update_profile", c, 200)
                                              EXCEPT !.target = uid]
                            \/ /\ audit_lost(old_row, row)
                               /\ resp' = [Response("update_profile", c, 500)
                                              EXCEPT !.target = uid]
        /\ UNCHANGED << food_vars, session, has_ownership, threads, call >>

RequiredComplete == {"height_value", "height_unit", "weight_value",
                     "weight_unit", "dietary_goal"}

complete_profile(c, data) ==
    LET b       == _bootstrap_once
        current == _current_user(c)
        uid     == current.user_id
        given   == [ UserRow(None, None, NoHash) EXCEPT
                       !.height_value = data.height_value,
                       !.height_unit  = data.height_unit,
                       !.weight_value = data.weight_value,
                       !.weight_unit  = data.weight_unit,
                       !.dietary_goal = data.dietary_goal ]
    IN  /\ bootstrap_done' = TRUE
        /\ user_seq' = b.seq
        /\ IF ~Authenticated(c)
           THEN /\ resp' = Response("complete_profile", c, 401)
                /\ users' = b.users
                /\ UNCHANGED << user_profile_changes, audit_failures >>
           ELSE IF \E k \in RequiredComplete : ~InData(data, k)
           THEN /\ resp' = Response("complete_profile", c, 400)
                /\ users' = b.users
                /\ UNCHANGED << user_profile_changes, audit_failures >>
           \* except ValueError: float() of text that is not a number
           ELSE IF \/ data.height_value = NotNumber
                   \/ data.height_value # NoneNum /\ data.weight_value = NotNumber
           THEN /\ resp' = Response("complete_profile", c, 400)
                /\ users' = b.users
                /\ UNCHANGED << user_profile_changes, audit_failures >>
           \* float(None) raises TypeError, which is not the ValueError branch
           ELSE IF data.height_value = NoneNum \/ data.weight_value = NoneNum
           THEN /\ resp' = Response("complete_profile", c, 500)
                /\ users' = b.users
                /\ UNCHANGED << user_profile_changes, audit_failures >>
           ELSE IF \/ data.height_unit \notin {"cm", "in"}
                   \/ data.weight_unit \notin {"kg", "lb"}
                   \/ data.dietary_goal \notin {"weight_gain", "weight_loss",
                                                "maintain", "eat_healthy"}
           THEN /\ resp' = Response("complete_profile", c, 400)
                /\ users' = b.users
                /\ UNCHANGED << user_profile_changes, audit_failures >>
           ELSE IF RowUnrealistic(given) /\ ~data.confirm_unrealistic
           THEN /\ resp' = Confirmation("complete_profile", c, given)
                /\ users' = b.users
                /\ UNCHANGED << user_profile_changes, audit_failures >>
           \* UPDATE of a missing row returns no row; {**row} then raises
           ELSE IF uid \notin DOMAIN b.users
           THEN /\ resp' = Response("complete_profile", c, 500)
                /\ users' = b.users
                /\ UNCHANGED << user_profile_changes, audit_failures >>
           ELSE LET old_row == b.users[uid]
                    row     == [old_row EXCEPT
                                  !.height_value = data.height_value,
                                  !.height_unit  = data.height_unit,
                                  !.weight_value = data.weight_value,
                                  !.weight_unit  = data.weight_unit,
                                  !.dietary_goal = data.dietary_goal,
                                  !.target_calories = RowTarget(given)]
                IN  /\ users' = [b.users EXCEPT ![uid] = row]
                    \* a failed SELECT of the old row skips the audit, a
                    \* raising audit INSERT is swallowed
                    /\ \/ audit_written(uid, current, old_row, row)
                       \/ audit_lost(old_row, row)
                    /\ resp' = [Response("complete_profile", c, 200)
                                   EXCEPT !.target = uid]
        /\ UNCHANGED << food_vars, session, has_ownership, threads, call >>

(***************************************************************************)
(* USERS CRUD (admin only)                                                 *)
(***************************************************************************)
\* a guard that asks for a session of any role: what C6 rules out
require_session(c) == IF session[c] = NoSession THEN 401 ELSE 0

\* a guard that looks the role up in the users table: what C30 rules out
require_stored_admin(c) ==
    IF ~Authenticated(c) THEN 401
    ELSE IF \/ _current_user(c).user_id \notin DOMAIN users
            \/ users[_current_user(c).user_id].role # "admin"
    THEN 403
    ELSE 0

\* the status require_admin answers with, 0 when it lets the request through
require_admin(c) ==
    IF ~Authenticated(c) THEN 401
    ELSE IF _current_user(c).role # "admin" THEN 403
    ELSE 0

\* a guard that lets every request through: what C20 rules out
require_nothing(c) == 0

\* the status require_auth answers with, 0 when it lets the request through
require_auth(c) == IF ~Authenticated(c) THEN 401 ELSE 0

RequiredProfile == {"height_value", "height_unit", "weight_value", "weight_unit"}

create_user(c, data) ==
    LET b     == _bootstrap_once
        given == [ UserRow(data.username, Get(data, "role", "user"), NoHash) EXCEPT
                     !.dietary_goal = Get(data, "dietary_goal", "maintain"),
                     !.height_value = data.height_value,
                     !.height_unit  = data.height_unit,
                     !.weight_value = data.weight_value,
                     !.weight_unit  = data.weight_unit ]
        new_row == [given EXCEPT !.target_calories = RowTarget(given)]
    IN  /\ bootstrap_done' = TRUE
        /\ IF require_admin(c) # 0
           THEN /\ resp' = Response("create_user", c, require_admin(c))
                /\ users' = b.users
                /\ user_seq' = b.seq
           ELSE IF ~InData(data, "username")
                   \/ \E k \in RequiredProfile : ~InData(data, k)
           THEN /\ resp' = Response("create_user", c, 400)
                /\ users' = b.users
                /\ user_seq' = b.seq
           \* float(None) raises TypeError, float() of text ValueError
           ELSE IF NoFloat(data.height_value) \/ NoFloat(data.weight_value)
           THEN /\ resp' = Response("create_user", c, 500)
                /\ users' = b.users
                /\ user_seq' = b.seq
           ELSE IF RowUnrealistic(given) /\ ~data.confirm_unrealistic
           THEN /\ resp' = Confirmation("create_user", c, given)
                /\ users' = b.users
                /\ user_seq' = b.seq
           \* usernames are unique in the table, role and goal have domains
           ELSE IF UsernameTaken(b.users, data.username) \/ ~users_check(new_row)
           THEN /\ resp' = Response("create_user", c, 500)
                /\ users' = b.users
                /\ user_seq' = b.seq
           ELSE /\ b.seq < MaxUsers
                /\ users' = b.users @@ ((b.seq + 1) :> new_row)
                /\ user_seq' = b.seq + 1
                /\ resp' = [Response("create_user", c, 201) EXCEPT !.target = b.seq + 1]
        /\ UNCHANGED << food_vars, user_profile_changes, session, has_ownership, threads, call, audit_failures >>

list_users(c) ==
    LET b == _bootstrap_once
    IN  /\ bootstrap_done' = TRUE
        /\ users' = b.users
        /\ user_seq' = b.seq
        /\ IF require_admin(c) # 0
           THEN resp' = Response("list_users", c, require_admin(c))
           ELSE resp' = [Response("list_users", c, 200) EXCEPT !.rows = DOMAIN b.users]
        /\ UNCHANGED << food_vars, user_profile_changes, session, has_ownership, threads, call, audit_failures >>

get_user(c, user_id) ==
    LET b == _bootstrap_once
    IN  /\ bootstrap_done' = TRUE
        /\ users' = b.users
        /\ user_seq' = b.seq
        /\ IF require_admin(c) # 0
           THEN resp' = Response("get_user", c, require_admin(c))
           ELSE IF user_id \notin DOMAIN b.users
           THEN resp' = [Response("get_user", c, 404) EXCEPT !.target = user_id]
           ELSE resp' = [Response("get_user", c, 200) EXCEPT !.target = user_id,
                                                             !.rows = {user_id}]
        /\ UNCHANGED << food_vars, user_profile_changes, session, has_ownership, threads, call, audit_failures >>

UserKeys == {"role"} \cup ProfileKeys

update_user(c, user_id, data) ==
    LET b          == _bootstrap_once
        changed_by == _current_user(c)
    IN  /\ bootstrap_done' = TRUE
        /\ user_seq' = b.seq
        /\ IF require_admin(c) # 0
           THEN /\ resp' = Response("update_user", c, require_admin(c))
                /\ users' = b.users
                /\ UNCHANGED << user_profile_changes, audit_failures >>
           ELSE IF NoData(data)
           THEN /\ resp' = [Response("update_user", c, 400) EXCEPT !.target = user_id]
                /\ users' = b.users
                /\ UNCHANGED << user_profile_changes, audit_failures >>
           ELSE IF user_id \notin DOMAIN b.users
           THEN /\ resp' = [Response("update_user", c, 404) EXCEPT !.target = user_id]
                /\ users' = b.users
                /\ UNCHANGED << user_profile_changes, audit_failures >>
           ELSE LET current_row    == b.users[user_id]
                    new_row        == Compose(current_row, data, UserKeys)
                    inputs_changed == \E k \in ProfileKeys : InData(data, k)
                    row == IF inputs_changed
                           THEN [new_row EXCEPT !.target_calories = RowTarget(new_row)]
                           ELSE new_row
                IN  IF inputs_changed /\ (\/ Falsy(new_row.height_value)
                                          \/ Falsy(new_row.weight_value))
                    THEN /\ resp' = [Response("update_user", c, 400)
                                        EXCEPT !.target = user_id]
                         /\ users' = b.users
                         /\ UNCHANGED << user_profile_changes, audit_failures >>
                    \* float() of the payload's text raises ValueError
                    ELSE IF inputs_changed /\ (\/ NoFloat(new_row.height_value)
                                               \/ NoFloat(new_row.weight_value))
                    THEN /\ resp' = [Response("update_user", c, 500)
                                        EXCEPT !.target = user_id]
                         /\ users' = b.users
                         /\ UNCHANGED << user_profile_changes, audit_failures >>
                    ELSE IF /\ inputs_changed
                            /\ RowUnrealistic(new_row)
                            /\ ~data.confirm_unrealistic
                    THEN /\ resp' = [Confirmation("update_user", c, new_row)
                                        EXCEPT !.target = user_id]
                         /\ users' = b.users
                         /\ UNCHANGED << user_profile_changes, audit_failures >>
                    \* the UPDATE raises on a value outside the column's domain
                    ELSE IF ~users_check(row)
                    THEN /\ resp' = [Response("update_user", c, 500)
                                        EXCEPT !.target = user_id]
                         /\ users' = b.users
                         /\ UNCHANGED << user_profile_changes, audit_failures >>
                    \* the UPDATE is committed before the audit INSERT runs
                    ELSE /\ users' = [b.users EXCEPT ![user_id] = row]
                         /\ \/ /\ audit_written(user_id, changed_by, current_row, row)
                               /\ resp' = [Response("update_user", c, 200)
                                              EXCEPT !.target = user_id]
                            \/ /\ audit_lost(current_row, row)
                               /\ resp' = [Response("update_user", c, 500)
                                              EXCEPT !.target = user_id]
        /\ UNCHANGED << food_vars, session, has_ownership, threads, call >>

\* DELETE FROM users; the consumption rows of the user go with it (CASCADE)
delete_user(c, user_id) ==
    LET b == _bootstrap_once
    IN  /\ bootstrap_done' = TRUE
        /\ user_seq' = b.seq
        /\ IF require_admin(c) # 0
           THEN /\ resp' = Response("delete_user", c, require_admin(c))
                /\ users' = b.users
                /\ UNCHANGED consumption
           ELSE IF user_id \notin DOMAIN b.users
           THEN /\ resp' = [Response("delete_user", c, 404) EXCEPT !.target = user_id]
                /\ users' = b.users
                /\ UNCHANGED consumption
           ELSE /\ users' = DeleteRow(b.users, user_id)
                /\ consumption' = [e \in {i \in DOMAIN consumption :
                                            consumption[i].user_id # user_id}
                                     |-> consumption[e]]
                /\ resp' = [Response("delete_user", c, 200) EXCEPT !.target = user_id,
                                                                !.rows = {user_id}]
        /\ UNCHANGED << food_items, food_seq, entry_seq, user_profile_changes,
                        session, has_ownership, threads, call, audit_failures >>

(***************************************************************************)
(* Accounts, profiles and user management                                  *)
(***************************************************************************)
UserIds == 1 .. MaxUsers

NextProfile ==
    \/ \E c \in Sessions, cr \in LoginCredentials : login(c, cr[1], cr[2])
    \/ \E c \in Sessions, cr \in Credentials : login_storage_down(c, cr[1], cr[2])
    \/ \E c \in Sessions : logout(c)
    \/ \E c \in Sessions, cr \in Credentials : signup(c, cr[1], cr[2])
    \/ \E c \in Sessions, d \in ProfileData : update_profile(c, d)
    \/ \E c \in Sessions, d \in CompleteData : complete_profile(c, d)
    \/ \E c \in Sessions, d \in CreateData : create_user(c, d)
    \/ \E c \in Sessions : list_users(c)
    \/ \E c \in Sessions, i \in UserIds : get_user(c, i)
    \/ \E c \in Sessions, i \in UserIds, d \in AdminData : update_user(c, i, d)
    \/ \E c \in Sessions, i \in UserIds : delete_user(c, i)

SpecProfile == Init(TRUE) /\ [][NextProfile]_vars

(***************************************************************************)
(* FOOD ITEMS CRUD                                                         *)
(***************************************************************************)
FoodNumKeys == {"calories", "protein", "carbs", "fat", "fiber", "sugars",
                "nutrition_density"}

FoodKeys == {"food_name"} \cup FoodNumKeys

InFood(data, k) == IF k \in FoodNumKeys THEN data[k] # AbsentNum ELSE data[k] # Absent

NameTaken(f, name) == \E i \in DOMAIN f : f[i].food_name = name

Referenced(food_id) == \E e \in DOMAIN consumption : consumption[e].food_id = food_id

FoodRow(data, owner) ==
    [ food_name |-> data.food_name, calories |-> data.calories,
      protein |-> data.protein, carbs |-> data.carbs, fat |-> data.fat,
      fiber |-> data.fiber, sugars |-> data.sugars,
      nutrition_density |-> IF data.nutrition_density = AbsentNum THEN 0
                            ELSE data.nutrition_density,
      created_by_user_id |-> owner ]

\* database/load_data.py: COPY of the cleaned CSV rows, which carry no owner
insert_food_items ==
    /\ food_seq < MaxFoods
    /\ ~NameTaken(food_items, "apple")
    /\ food_items' = food_items @@ ((food_seq + 1) :>
           FoodRow(Facts("apple", 50, 0, 14, 0, 2, 10), NoneNum))
    /\ food_seq' = food_seq + 1
    /\ resp' = Response("insert_food_items", "c1", 0)
    /\ UNCHANGED << users, user_seq, consumption, entry_seq, user_profile_changes,
                    session, bootstrap_done, has_ownership, threads, call, audit_failures >>

RequiredFood == {"food_name", "calories", "protein", "carbs", "fat", "fiber", "sugars"}

create_food(c, data) ==
    LET b       == _bootstrap_once
        current == _current_user(c)
    IN  /\ bootstrap_done' = TRUE
        /\ users' = b.users
        /\ user_seq' = b.seq
        /\ IF require_auth(c) # 0
           THEN /\ resp' = Response("create_food", c, 401)
                /\ UNCHANGED << food_items, food_seq >>
           ELSE IF \E k \in RequiredFood : ~InFood(data, k)
           THEN /\ resp' = Response("create_food", c, 400)
                /\ UNCHANGED << food_items, food_seq >>
           \* food_name is UNIQUE
           ELSE IF NameTaken(food_items, data.food_name)
           THEN /\ resp' = Response("create_food", c, 500)
                /\ UNCHANGED << food_items, food_seq >>
           ELSE /\ food_seq < MaxFoods
                /\ food_items' = food_items @@ ((food_seq + 1) :>
                       FoodRow(data, IF has_ownership THEN current.user_id ELSE NoneNum))
                /\ food_seq' = food_seq + 1
                /\ resp' = [Response("create_food", c, 201) EXCEPT !.target = food_seq + 1]
        /\ UNCHANGED << consumption, entry_seq, user_profile_changes, session,
                        has_ownership, threads, call, audit_failures >>

\* the status the ownership check of update_food / delete_food ends with,
\* 0 when the request may go on
food_permission(current, food_id) ==
    IF food_id \notin DOMAIN food_items THEN 404
    ELSE IF /\ has_ownership
            /\ current.role # "admin"
            /\ food_items[food_id].created_by_user_id # current.user_id
    THEN 403
    ELSE 0

\* an update that also refreshes the snapshots of the entries that reference
\* the item: what C13 rules out
update_food_live(c, food_id, data) ==
    LET b       == _bootstrap_once
        current == _current_user(c)
        fields  == {k \in FoodKeys : InFood(data, k)}
        row     == [k \in DOMAIN food_items[food_id] |->
                      IF k \in fields THEN data[k] ELSE food_items[food_id][k]]
        status  == IF require_auth(c) # 0 THEN 401
                   ELSE IF fields = {} /\ ~data.extra THEN 400
                   ELSE IF food_permission(current, food_id) # 0
                   THEN food_permission(current, food_id)
                   ELSE IF fields = {} THEN 400
                   ELSE IF /\ "food_name" \in fields
                           /\ NameTaken(DeleteRow(food_items, food_id), data.food_name)
                   THEN 500
                   ELSE 200
        live(entry) == [k \in DOMAIN entry |->
                          IF k \in FoodNumKeys \ {"nutrition_density"}
                          THEN row[k] * entry.portion_size
                          ELSE entry[k]]
    IN  /\ bootstrap_done' = TRUE
        /\ users' = b.users
        /\ user_seq' = b.seq
        /\ resp' = [Response("update_food", c, status) EXCEPT
                       !.target = IF status = 401 THEN 0 ELSE food_id,
                       !.rows = IF status = 200 THEN {food_id} ELSE {}]
        /\ food_items' = IF status = 200 THEN [food_items EXCEPT ![food_id] = row]
                         ELSE food_items
        /\ consumption' = IF status = 200
                          THEN [e \in DOMAIN consumption |->
                                  IF consumption[e].food_id = food_id
                                  THEN live(consumption[e]) ELSE consumption[e]]
                          ELSE consumption
        /\ UNCHANGED << food_seq, entry_seq, user_profile_changes,
                        session, has_ownership, threads, call, audit_failures >>

update_food(c, food_id, data) ==
    LET b       == _bootstrap_once
        current == _current_user(c)
        fields  == {k \in FoodKeys : InFood(data, k)}
        row     == [k \in DOMAIN food_items[food_id] |->
                      IF k \in fields THEN data[k] ELSE food_items[food_id][k]]
    IN  /\ bootstrap_done' = TRUE
        /\ users' = b.users
        /\ user_seq' = b.seq
        /\ IF require_auth(c) # 0
           THEN /\ resp' = Response("update_food", c, 401)
                /\ UNCHANGED food_items
           ELSE IF fields = {} /\ ~data.extra
           THEN /\ resp' = [Response("update_food", c, 400) EXCEPT !.target = food_id]
                /\ UNCHANGED food_items
           ELSE IF food_permission(current, food_id) # 0
           THEN /\ resp' = [Response("update_food", c, food_permission(current, food_id))
                               EXCEPT !.target = food_id]
                /\ UNCHANGED food_items
           ELSE IF fields = {}
           THEN /\ resp' = [Response("update_food", c, 400) EXCEPT !.target = food_id]
                /\ UNCHANGED food_items
           \* food_name is UNIQUE
           ELSE IF /\ "food_name" \in fields
                   /\ NameTaken(DeleteRow(food_items, food_id), data.food_name)
           THEN /\ resp' = [Response("update_food", c, 500) EXCEPT !.target = food_id]
                /\ UNCHANGED food_items
           ELSE /\ food_items' = [food_items EXCEPT ![food_id] = row]
                /\ resp' = [Response("update_food", c, 200) EXCEPT !.target = food_id,
                                                                !.rows = {food_id}]
        /\ UNCHANGED << food_seq, consumption, entry_seq, user_profile_changes,
                        session, has_ownership, threads, call, audit_failures >>

delete_food(c, food_id) ==
    LET b       == _bootstrap_once
        current == _current_user(c)
    IN  /\ bootstrap_done' = TRUE
        /\ users' = b.users
        /\ user_seq' = b.seq
        /\ IF require_auth(c) # 0
           THEN /\ resp' = Response("delete_food", c, 401)
                /\ UNCHANGED food_items
           ELSE IF food_permission(current, food_id) # 0
           THEN /\ resp' = [Response("delete_food", c, food_permission(current, food_id))
                               EXCEPT !.target = food_id]
                /\ UNCHANGED food_items
           \* ON DELETE RESTRICT: the DELETE raises, the handler answers 500
           ELSE IF Referenced(food_id)
           THEN /\ resp' = [Response("delete_food", c, 500) EXCEPT !.target = food_id]
                /\ UNCHANGED food_items
           ELSE /\ food_items' = DeleteRow(food_items, food_id)
                /\ resp' = [Response("delete_food", c, 200) EXCEPT !.target = food_id,
                                                                !.rows = {food_id}]
        /\ UNCHANGED << food_seq, consumption, entry_seq, user_profile_changes,
                        session, has_ownership, threads, call, audit_failures >>

(***************************************************************************)
(* CONSUMPTION CRUD                                                        *)
(***************************************************************************)
EntryTextKeys == {"date", "meal_type"}

InEntry(data, k) == IF k \in EntryTextKeys THEN data[k] # Absent ELSE data[k] # AbsentNum

NoEntryData(data) == \A k \in DOMAIN data : ~InEntry(data, k)

Nutrition == {"calories", "protein", "carbs", "fat", "fiber", "sugars"}

\* the six nutrition values of a food item times portion_size, and the score
Snapshot(food, portion_size) ==
    LET calories == food.calories * portion_size
        protein  == food.protein * portion_size
        carbs    == food.carbs * portion_size
        fat      == food.fat * portion_size
        fiber    == food.fiber * portion_size
        sugars   == food.sugars * portion_size
    IN  [ calories |-> calories, protein |-> protein, carbs |-> carbs,
          fat |-> fat, fiber |-> fiber, sugars |-> sugars,
          health_score |-> calculate_health_score(calories, protein, fiber, sugars) ]

\* the payload's user_id whenever it carries one: what C5 rules out
payload_user_id(current, data) ==
    IF data.user_id # AbsentNum THEN data.user_id ELSE current.user_id

\* user_id of the new entry: the payload's for an admin, the session's otherwise
entry_user_id(current, data) ==
    IF current.role = "admin" THEN data.user_id ELSE current.user_id

create_consumption(c, data) ==
    LET b            == _bootstrap_once
        current      == _current_user(c)
        user_id      == entry_user_id(current, data)
        portion_size == IF InEntry(data, "portion_size") THEN data.portion_size ELSE 1
        snap         == Snapshot(food_items[data.food_id], portion_size)
        new_row      == [ user_id |-> user_id, food_id |-> data.food_id,
                          date |-> data.date, portion_size |-> portion_size,
                          calories |-> snap.calories, protein |-> snap.protein,
                          carbs |-> snap.carbs, fat |-> snap.fat,
                          fiber |-> snap.fiber, sugars |-> snap.sugars,
                          health_score |-> snap.health_score,
                          meal_type |-> IF InEntry(data, "meal_type")
                                        THEN data.meal_type ELSE None ]
    IN  /\ bootstrap_done' = TRUE
        /\ users' = b.users
        /\ user_seq' = b.seq
        /\ IF require_auth(c) # 0
           THEN /\ resp' = Response("create_consumption", c, 401)
                /\ UNCHANGED << consumption, entry_seq >>
           ELSE IF ~InEntry(data, "food_id") \/ ~InEntry(data, "date")
           THEN /\ resp' = Response("create_consumption", c, 400)
                /\ UNCHANGED << consumption, entry_seq >>
           ELSE IF current.role = "admin" /\ ~InEntry(data, "user_id")
           THEN /\ resp' = Response("create_consumption", c, 400)
                /\ UNCHANGED << consumption, entry_seq >>
           \* float() of the payload's portion_size raises
           ELSE IF NoFloat(portion_size)
           THEN /\ resp' = Response("create_consumption", c, 500)
                /\ UNCHANGED << consumption, entry_seq >>
           ELSE IF data.food_id \notin DOMAIN food_items
           THEN /\ resp' = Response("create_consumption", c, 404)
                /\ UNCHANGED << consumption, entry_seq >>
           \* consumption.user_id references users
           ELSE IF user_id \notin DOMAIN b.users
           THEN /\ resp' = Response("create_consumption", c, 500)
                /\ UNCHANGED << consumption, entry_seq >>
           ELSE /\ entry_seq < MaxEntries
                /\ consumption' = consumption @@ ((entry_seq + 1) :> new_row)
                /\ entry_seq' = entry_seq + 1
                /\ resp' = [Response("create_consumption", c, 201)
                               EXCEPT !.target = entry_seq + 1,
                                      !.rows = {entry_seq + 1}]
        /\ UNCHANGED << food_items, food_seq, user_profile_changes, session,
                        has_ownership, threads, call, audit_failures >>

\* a check that the entry exists and nothing more: what C8 rules out
entry_exists(current, entry_id) ==
    IF entry_id \notin DOMAIN consumption THEN 404 ELSE 0

\* the status the owner-or-admin check of an entry ends with, 0 to go on
entry_permission(current, entry_id) ==
    IF entry_id \notin DOMAIN consumption THEN 404
    ELSE IF /\ current.role # "admin"
            /\ consumption[entry_id].user_id # current.user_id
    THEN 403
    ELSE 0

\* user_id of the path, replaced by the session's for everyone but an admin
path_user_id(current, user_id) ==
    IF current.role # "admin" THEN current.user_id ELSE user_id

\* the user_id of the query string taken as sent: what C9 rules out
requested_user_id(current, user_id) == user_id

\* user_id of the query string, replaced by the session's for everyone but an admin
query_user_id(current, user_id) ==
    IF current.role = "admin" THEN user_id ELSE current.user_id

list_consumption(c, user_id, meal_type) ==
    LET b       == _bootstrap_once
        current == _current_user(c)
        scope   == query_user_id(current, user_id)
    IN  /\ bootstrap_done' = TRUE
        /\ users' = b.users
        /\ user_seq' = b.seq
        /\ IF require_auth(c) # 0
           THEN resp' = Response("list_consumption", c, 401)
           ELSE IF current.role = "admin" /\ user_id = AbsentNum
           THEN resp' = Response("list_consumption", c, 400)
           ELSE resp' = [Response("list_consumption", c, 200) EXCEPT
                           !.target = user_id,
                           !.rows = {e \in DOMAIN consumption :
                                       /\ consumption[e].user_id = scope
                                       /\ meal_type # Absent =>
                                            consumption[e].meal_type = meal_type}]
        /\ UNCHANGED << food_vars, user_profile_changes, session, has_ownership, threads, call, audit_failures >>

get_consumption(c, entry_id) ==
    LET b       == _bootstrap_once
        current == _current_user(c)
    IN  /\ bootstrap_done' = TRUE
        /\ users' = b.users
        /\ user_seq' = b.seq
        /\ IF require_auth(c) # 0
           THEN resp' = Response("get_consumption", c, 401)
           ELSE IF entry_permission(current, entry_id) # 0
           THEN resp' = [Response("get_consumption", c,
                                  entry_permission(current, entry_id))
                            EXCEPT !.target = entry_id]
           ELSE resp' = [Response("get_consumption", c, 200)
                            EXCEPT !.target = entry_id, !.rows = {entry_id}]
        /\ UNCHANGED << food_vars, user_profile_changes, session, has_ownership, threads, call, audit_failures >>

EntryColumns == {"date", "portion_size"} \cup Nutrition \cup {"health_score", "meal_type"}

\* a recalculation that fills in only the keys the payload left out: what
\* C11 rules out
recalculate_missing(data, food) ==
    IF ~InEntry(data, "portion_size") THEN data
    ELSE LET snap == Snapshot(food, data.portion_size)
         IN  [k \in DOMAIN data |->
                IF k \in DOMAIN snap /\ ~InEntry(data, k) THEN snap[k] ELSE data[k]]

\* if "portion_size" in data: the six nutrition keys and health_score of the
\* payload are overwritten by the food item's values times portion_size
recalculate(data, food) ==
    IF ~InEntry(data, "portion_size") THEN data
    ELSE LET snap == Snapshot(food, data.portion_size)
         IN  [k \in DOMAIN data |->
                IF k \in DOMAIN snap THEN snap[k] ELSE data[k]]

update_consumption(c, entry_id, data) ==
    LET b            == _bootstrap_once
        current_user == _current_user(c)
        entry        == consumption[entry_id]
        data2        == recalculate(data, food_items[entry.food_id])
        fields       == {k \in EntryColumns : InEntry(data2, k)}
        row          == [k \in DOMAIN entry |->
                           IF k \in fields THEN data2[k] ELSE entry[k]]
    IN  /\ bootstrap_done' = TRUE
        /\ users' = b.users
        /\ user_seq' = b.seq
        /\ IF require_auth(c) # 0
           THEN /\ resp' = Response("update_consumption", c, 401)
                /\ UNCHANGED consumption
           ELSE IF NoEntryData(data)
           THEN /\ resp' = [Response("update_consumption", c, 400)
                               EXCEPT !.target = entry_id]
                /\ UNCHANGED consumption
           ELSE IF entry_permission(current_user, entry_id) # 0
           THEN /\ resp' = [Response("update_consumption", c,
                                     entry_permission(current_user, entry_id))
                               EXCEPT !.target = entry_id]
                /\ UNCHANGED consumption
           \* float() of the payload's portion_size raises
           ELSE IF InEntry(data, "portion_size") /\ NoFloat(data.portion_size)
           THEN /\ resp' = [Response("update_consumption", c, 500)
                               EXCEPT !.target = entry_id]
                /\ UNCHANGED consumption
           ELSE IF fields = {}
           THEN /\ resp' = [Response("update_consumption", c, 400)
                               EXCEPT !.target = entry_id]
                /\ UNCHANGED consumption
           ELSE /\ consumption' = [consumption EXCEPT ![entry_id] = row]
                /\ resp' = [Response("update_consumption", c, 200)
                               EXCEPT !.target = entry_id, !.rows = {entry_id}]
        /\ UNCHANGED << food_items, food_seq, entry_seq, user_profile_changes,
                        session, has_ownership, threads, call, audit_failures >>

delete_consumption(c, entry_id) ==
    LET b            == _bootstrap_once
        current_user == _current_user(c)
    IN  /\ bootstrap_done' = TRUE
        /\ users' = b.users
        /\ user_seq' = b.seq
        /\ IF require_auth(c) # 0
           THEN /\ resp' = Response("delete_consumption", c, 401)
                /\ UNCHANGED consumption
           ELSE IF entry_permission(current_user, entry_id) # 0
           THEN /\ resp' = [Response("delete_consumption", c,
                                     entry_permission(current_user, entry_id))
                               EXCEPT !.target = entry_id]
                /\ UNCHANGED consumption
           ELSE /\ consumption' = DeleteRow(consumption, entry_id)
                /\ resp' = [Response("delete_consumption", c, 200)
                               EXCEPT !.target = entry_id, !.rows = {entry_id}]
        /\ UNCHANGED << food_items, food_seq, entry_seq, user_profile_changes,
                        session, has_ownership, threads, call, audit_failures >>

(***************************************************************************)
(* ANALYTICAL ENDPOINTS (per user)                                         *)
(* A result is the set of consumption rows its aggregate is computed from. *)
(***************************************************************************)
EntriesOf(user_id) == {e \in DOMAIN consumption : consumption[e].user_id = user_id}

\* a query written as DELETE ... RETURNING: what C21 rules out
ReadAndRemove(op, c, response) ==
    LET b == _bootstrap_once
    IN  /\ bootstrap_done' = TRUE
        /\ users' = b.users
        /\ user_seq' = b.seq
        /\ resp' = IF require_auth(c) # 0 THEN Response(op, c, 401) ELSE response
        /\ consumption' = [e \in DOMAIN consumption \ resp'.rows |-> consumption[e]]
        /\ UNCHANGED << food_items, food_seq, entry_seq, user_profile_changes,
                        session, has_ownership, threads, call, audit_failures >>

Read(op, c, response) ==
    LET b == _bootstrap_once
    IN  /\ bootstrap_done' = TRUE
        /\ users' = b.users
        /\ user_seq' = b.seq
        /\ resp' = IF require_auth(c) # 0 THEN Response(op, c, 401) ELSE response
        /\ UNCHANGED << food_vars, user_profile_changes, session, has_ownership, threads, call, audit_failures >>

\* limit of the query string: missing (20), 0, or text that int() rejects
Limits == {AbsentNum, 0, NotNumber}

Limited(limit) == IF limit = 0 THEN {} ELSE DOMAIN food_items

\* rows are food items here
get_food_nutrition(c, limit) ==
    Read("get_food_nutrition", c,
         IF limit = NotNumber THEN Response("get_food_nutrition", c, 500)
         ELSE [Response("get_food_nutrition", c, 200) EXCEPT !.rows = Limited(limit)])

get_top_foods(c, limit) ==
    Read("get_top_foods", c,
         IF limit = NotNumber THEN Response("get_top_foods", c, 500)
         ELSE [Response("get_top_foods", c, 200) EXCEPT !.rows = Limited(limit)])

get_user_progress(c, user_id) ==
    LET scope == path_user_id(_current_user(c), user_id)
    IN  Read("get_user_progress", c,
             [Response("get_user_progress", c, 200) EXCEPT
                !.target = user_id, !.rows = EntriesOf(scope)])

get_daily_health_score(c, user_id) ==
    LET scope == path_user_id(_current_user(c), user_id)
    IN  Read("get_daily_health_score", c,
             [Response("get_daily_health_score", c, 200) EXCEPT
                !.target = user_id, !.rows = EntriesOf(scope)])

get_overall_health_score(c, user_id) ==
    LET scope == path_user_id(_current_user(c), user_id)
    IN  Read("get_overall_health_score", c,
             IF EntriesOf(scope) = {}
             THEN [Response("get_overall_health_score", c, 404) EXCEPT
                     !.target = user_id]
             ELSE [Response("get_overall_health_score", c, 200) EXCEPT
                     !.target = user_id, !.rows = EntriesOf(scope)])

get_meal_distribution(c, user_id) ==
    LET current == _current_user(c)
        scope   == query_user_id(current, user_id)
    IN  Read("get_meal_distribution", c,
             IF current.role = "admin" /\ user_id = AbsentNum
             THEN Response("get_meal_distribution", c, 400)
             ELSE [Response("get_meal_distribution", c, 200) EXCEPT
                     !.target = user_id,
                     !.rows = {e \in EntriesOf(scope) :
                                 consumption[e].meal_type # None}])

get_popular_foods(c, user_id) ==
    LET current == _current_user(c)
        scope   == query_user_id(current, user_id)
    IN  Read("get_popular_foods", c,
             [Response("get_popular_foods", c, 200) EXCEPT
                !.target = user_id,
                !.rows = IF scope # AbsentNum THEN EntriesOf(scope)
                         ELSE DOMAIN consumption])

(***************************************************************************)
(* Food catalog, consumption log and analytics                             *)
(***************************************************************************)
FoodIds  == 1 .. MaxFoods
EntryIds == 1 .. MaxEntries
UserParams == {AbsentNum} \cup UserIds

NextFood ==
    \/ \E c \in Sessions, cr \in FoodCredentials : login(c, cr[1], cr[2])
    \/ \E c \in Sessions : logout(c)
    \/ \E c \in Sessions, cr \in FoodCredentials : signup(c, cr[1], cr[2])
    \/ \E c \in Sessions, i \in UserIds : delete_user(c, i)
    \/ insert_food_items
    \/ \E c \in Sessions, d \in FoodData : create_food(c, d)
    \/ \E c \in Sessions, f \in FoodIds, d \in FoodPatch : update_food(c, f, d)
    \/ \E c \in Sessions, f \in FoodIds : delete_food(c, f)
    \/ \E c \in Sessions, d \in EntryData : create_consumption(c, d)
    \/ \E c \in Sessions, u \in UserParams, m \in {Absent, "lunch"} :
          list_consumption(c, u, m)
    \/ \E c \in Sessions, e \in EntryIds : get_consumption(c, e)
    \/ \E c \in Sessions, e \in EntryIds, d \in EntryPatch : update_consumption(c, e, d)
    \/ \E c \in Sessions, e \in EntryIds : delete_consumption(c, e)
    \/ \E c \in Sessions, n \in Limits : get_food_nutrition(c, n)
    \/ \E c \in Sessions, n \in Limits : get_top_foods(c, n)
    \/ \E c \in Sessions, u \in UserIds : get_user_progress(c, u)
    \/ \E c \in Sessions, u \in UserIds : get_daily_health_score(c, u)
    \/ \E c \in Sessions, u \in UserIds : get_overall_health_score(c, u)
    \/ \E c \in Sessions, u \in UserParams : get_meal_distribution(c, u)
    \/ \E c \in Sessions, u \in UserParams : get_popular_foods(c, u)

SpecFood == (\E ownership \in BOOLEAN : Init(ownership)) /\ [][NextFood]_vars

(***************************************************************************)
(* Cold start: the before_request hook of requests that the server's       *)
(* threads handle at the same time, one step per read or write of the flag *)
(* and per statement group of the bootstrap transaction.                   *)
(***************************************************************************)
\* if not getattr(app, "_bootstrap_done", False)
boot_check(t) ==
    /\ threads[t].pc = "idle"
    /\ threads' = [threads EXCEPT ![t].pc =
                      IF bootstrap_done THEN "handler" ELSE "select"]
    /\ UNCHANGED << users, user_seq, food_items, food_seq, consumption, entry_seq,
                    user_profile_changes, session, bootstrap_done, has_ownership,
                    call, audit_failures, resp >>

\* SELECT ... WHERE role='admin': whether an admin is seen
boot_select(t) ==
    /\ threads[t].pc = "select"
    /\ threads' = [threads EXCEPT ![t].pc = "write",
                                  ![t].read = \E i \in DOMAIN users : users[i].role = "admin"]
    /\ UNCHANGED << users, user_seq, food_items, food_seq, consumption, entry_seq,
                    user_profile_changes, session, bootstrap_done, has_ownership,
                    call, audit_failures, resp >>

\* the INSERT or UPDATEs and the commit.  When an admin named admin was
\* committed after the SELECT saw none, the INSERT raises on the taken
\* username and the except clause swallows it.
boot_write(t) ==
    LET now == \E i \in DOMAIN users : users[i].role = "admin"
        b   == IF threads[t].read = now
               THEN ensure_admin_bootstrap(users, user_seq)
               ELSE [users |-> users, seq |-> user_seq]
    IN  /\ threads[t].pc = "write"
        /\ users' = b.users
        /\ user_seq' = b.seq
        /\ threads' = [threads EXCEPT ![t].pc = "set",
                                      ![t].runs = threads[t].runs + 1,
                                      ![t].read = None]
        /\ UNCHANGED << food_items, food_seq, consumption, entry_seq,
                        user_profile_changes, session, bootstrap_done, has_ownership,
                        call, audit_failures, resp >>

\* a hook that forgets the flag: what C26 rules out
boot_forget(t) ==
    /\ threads[t].pc = "set"
    /\ threads[t].runs < 3
    /\ threads' = [threads EXCEPT ![t].pc = "handler"]
    /\ UNCHANGED << users, user_seq, food_items, food_seq, consumption, entry_seq,
                    user_profile_changes, session, bootstrap_done, has_ownership,
                    call, audit_failures, resp >>

\* setattr(app, "_bootstrap_done", True)
boot_set(t) ==
    /\ threads[t].pc = "set"
    /\ bootstrap_done' = TRUE
    /\ threads' = [threads EXCEPT ![t].pc = "handler"]
    /\ UNCHANGED << users, user_seq, food_items, food_seq, consumption, entry_seq,
                    user_profile_changes, session, has_ownership,
                    call, audit_failures, resp >>

\* the view function runs and the thread takes the next request
boot_handler(t) ==
    /\ threads[t].pc = "handler"
    /\ threads' = [threads EXCEPT ![t].pc = "idle"]
    /\ UNCHANGED << users, user_seq, food_items, food_seq, consumption, entry_seq,
                    user_profile_changes, session, bootstrap_done, has_ownership,
                    call, audit_failures, resp >>

NextBoot ==
    \/ \E t \in Threads : boot_check(t)
    \/ \E t \in Threads : boot_select(t)
    \/ \E t \in Threads : boot_write(t)
    \/ \E t \in Threads : boot_set(t)
    \/ \E t \in Threads : boot_handler(t)

SpecBoot == Init(TRUE) /\ [][NextBoot]_vars

(***************************************************************************)
(* Requests in flight at the same time.  Each thread's request is cut at   *)
(* its statements: what a SELECT returned is kept in the thread's read     *)
(* until the request's INSERT or UPDATE commits.  The requests come with   *)
(* the session of the admin, whom every handler lets through, the profile  *)
(* requests with ann's own; ann is the user they are about.                *)
(***************************************************************************)
Ann ==
    [ UserRow("ann", "user", generate_password_hash("secret1"))
        EXCEPT !.height_value = 170, !.height_unit = "cm",
               !.weight_value = 70, !.weight_unit = "kg",
               !.target_calories = calculate_target_calories(170, "cm", 70, "kg", "maintain") ]

Oats == FoodRow(Facts("oats", 100, 10, 20, 5, 5, 2), NoneNum)

InitRace ==
    /\ users = (1 :> UserRow("admin", "admin", generate_password_hash("admin123")))
               @@ (2 :> Ann)
    /\ user_seq = 2
    /\ food_items = (1 :> Oats)
    /\ food_seq = 1
    /\ consumption = << >>
    /\ entry_seq = 0
    /\ user_profile_changes = << >>
    /\ session = [c \in Sessions |-> [user_id |-> 1, username |-> "admin", role |-> "admin"]]
    /\ bootstrap_done = TRUE
    /\ has_ownership = TRUE
    /\ threads = [t \in Threads |-> Idle]
    /\ call = NoCall
    /\ audit_failures = 0
    /\ resp = Response("start", "c1", 0)

Portions == {1, 2}

\* bodies of update_food: both change calories and protein
FoodEdits ==
    { [NoFood EXCEPT !.calories = 50, !.protein = 20],
      [NoFood EXCEPT !.calories = 100, !.protein = 10] }

\* protein looked up again when the entry is written: what C27 rules out
fetched_again(food, latest) == [food EXCEPT !.protein = latest.protein]

\* food = cur.fetchone(): every value is computed from this one row
fetched(food, latest) == food

\* create_consumption up to SELECT * FROM food_items
create_consumption_select(t, portion_size) ==
    /\ threads[t].pc = "idle"
    /\ threads' = [threads EXCEPT ![t].pc = "insert",
                                  ![t].read = [ food |-> food_items[1],
                                                portion_size |-> portion_size,
                                                entry_id |-> 0 ]]
    /\ UNCHANGED << users, user_seq, food_items, food_seq, consumption, entry_seq,
                    user_profile_changes, session, bootstrap_done, has_ownership,
                    call, audit_failures, resp >>

\* create_consumption from the computation to the INSERT and the commit
create_consumption_insert(t) ==
    LET r    == threads[t].read
        snap == Snapshot(fetched(r.food, food_items[1]), r.portion_size)
    IN  /\ threads[t].pc = "insert"
        /\ entry_seq < MaxEntries
        /\ consumption' = consumption @@ ((entry_seq + 1) :>
               [ user_id |-> 2, food_id |-> 1, date |-> "d1",
                 portion_size |-> r.portion_size,
                 calories |-> snap.calories, protein |-> snap.protein,
                 carbs |-> snap.carbs, fat |-> snap.fat,
                 fiber |-> snap.fiber, sugars |-> snap.sugars,
                 health_score |-> snap.health_score, meal_type |-> None ])
        /\ entry_seq' = entry_seq + 1
        /\ threads' = [threads EXCEPT ![t] = [threads[t] EXCEPT !.pc = "idle", !.read = None]]
        /\ resp' = [Response("create_consumption", "c1", 201)
                       EXCEPT !.target = entry_seq + 1, !.rows = {entry_seq + 1}]
        /\ UNCHANGED << users, user_seq, food_items, food_seq,
                        user_profile_changes, session, bootstrap_done, has_ownership,
                        call, audit_failures >>

\* update_consumption with portion_size up to SELECT * FROM food_items
update_consumption_select(t, entry_id, portion_size) ==
    /\ threads[t].pc = "idle"
    /\ entry_id \in DOMAIN consumption
    /\ threads' = [threads EXCEPT ![t].pc = "update",
                                  ![t].read = [ food |-> food_items[consumption[entry_id].food_id],
                                                portion_size |-> portion_size,
                                                entry_id |-> entry_id ]]
    /\ UNCHANGED << users, user_seq, food_items, food_seq, consumption, entry_seq,
                    user_profile_changes, session, bootstrap_done, has_ownership,
                    call, audit_failures, resp >>

\* update_consumption from the recalculation to the UPDATE and the commit
update_consumption_update(t) ==
    LET r      == threads[t].read
        entry  == consumption[r.entry_id]
        data2  == recalculate([NoEntry EXCEPT !.portion_size = r.portion_size],
                              fetched(r.food, food_items[entry.food_id]))
        fields == {k \in EntryColumns : InEntry(data2, k)}
    IN  /\ threads[t].pc = "update"
        /\ consumption' = [consumption EXCEPT ![r.entry_id] =
               [k \in DOMAIN entry |-> IF k \in fields THEN data2[k] ELSE entry[k]]]
        /\ threads' = [threads EXCEPT ![t] = [threads[t] EXCEPT !.pc = "idle", !.read = None]]
        /\ resp' = [Response("update_consumption", "c1", 200)
                       EXCEPT !.target = r.entry_id, !.rows = {r.entry_id}]
        /\ UNCHANGED << users, user_seq, food_items, food_seq, entry_seq,
                        user_profile_changes, session, bootstrap_done, has_ownership,
                        call, audit_failures >>

Edited(food, data) ==
    [k \in DOMAIN food |-> IF k \in FoodKeys /\ InFood(data, k) THEN data[k] ELSE food[k]]

\* update_food: one UPDATE statement sets every column of the body
update_food_statement(data) ==
    /\ food_items' = [food_items EXCEPT ![1] = Edited(food_items[1], data)]
    /\ resp' = [Response("update_food", "c1", 200) EXCEPT !.target = 1, !.rows = {1}]
    /\ UNCHANGED << users, user_seq, food_seq, consumption, entry_seq,
                    user_profile_changes, session, bootstrap_done, has_ownership,
                    threads, call, audit_failures >>

NextSnapshot ==
    \/ \E t \in Threads, p \in Portions : create_consumption_select(t, p)
    \/ \E t \in Threads : create_consumption_insert(t)
    \/ \E t \in Threads, e \in 1 .. MaxEntries, p \in Portions :
          update_consumption_select(t, e, p)
    \/ \E t \in Threads : update_consumption_update(t)
    \/ \E data \in FoodEdits : update_food_statement(data)

SpecSnapshot == InitRace /\ [][NextSnapshot]_vars

AnnSession == [user_id |-> 2, username |-> "ann", role |-> "user"]

\* bodies of the profile requests and of update_user; the second body of
\* update_user carries role alone
ProfileEdits ==
    { << "update_profile", [EmptyData EXCEPT !.weight_value = 80] >>,
      << "update_profile", [EmptyData EXCEPT !.height_value = 90] >>,
      << "complete_profile", FullData(180, "cm", 70, "kg", "weight_loss") >>,
      << "update_user", [EmptyData EXCEPT !.dietary_goal = "weight_gain"] >>,
      << "update_user", [EmptyData EXCEPT !.role = "admin"] >> }

\* the row the handler composes from what it read and its body
composed(op, old_row, data) ==
    IF op = "update_user"
    THEN LET new_row == Compose(old_row, data, UserKeys)
         IN  IF \E k \in ProfileKeys : InData(data, k)
             THEN [new_row EXCEPT !.target_calories = RowTarget(new_row)]
             ELSE new_row
    ELSE IF op = "update_profile"
    THEN LET new_row == Compose(old_row, data, ProfileKeys)
         IN  [new_row EXCEPT !.target_calories = RowTarget(new_row)]
    ELSE LET given == [old_row EXCEPT !.height_value = data.height_value,
                                      !.height_unit  = data.height_unit,
                                      !.weight_value = data.weight_value,
                                      !.weight_unit  = data.weight_unit,
                                      !.dietary_goal = data.dietary_goal]
         IN  [given EXCEPT !.target_calories = RowTarget(given)]

\* the checks between the SELECT and the UPDATE let the request through
validated(op, old_row, data) ==
    LET row    == composed(op, old_row, data)
        inputs == op # "update_user" \/ \E k \in ProfileKeys : InData(data, k)
    IN  /\ inputs => /\ ~ Falsy(row.height_value) /\ ~ Falsy(row.weight_value)
                     /\ ~ NoFloat(row.height_value) /\ ~ NoFloat(row.weight_value)
                     /\ ~ RowUnrealistic(row) \/ data.confirm_unrealistic
        /\ op = "complete_profile" => /\ data.height_unit \in {"cm", "in"}
                                      /\ data.weight_unit \in {"kg", "lb"}
        /\ users_check(row)

\* a SET clause built from the keys of the body: what C28 rules out
columns_given(op, data) ==
    {k \in UserKeys : Given(data, k)} \cup {"target_calories"}

\* the columns of the UPDATE statement
columns(op, data) == IF op = "update_user" THEN {"role"} \cup Tracked ELSE Tracked

\* the handler up to the SELECT of the user's row
profile_select(t, op, data) ==
    /\ threads[t].pc = "idle"
    /\ threads' = [threads EXCEPT ![t].pc = "write",
                                  ![t].read = [op |-> op, old_row |-> users[2], data |-> data]]
    /\ UNCHANGED << users, user_seq, food_items, food_seq, consumption, entry_seq,
                    user_profile_changes, session, bootstrap_done, has_ownership,
                    call, audit_failures, resp >>

\* the checks, the UPDATE in a second connection and the audit record.
\* Each thread handles one of these requests, so up to three overlap.
profile_update(t) ==
    LET r      == threads[t].read
        row    == composed(r.op, r.old_row, r.data)
        stored == [k \in DOMAIN users[2] |->
                     IF k \in columns(r.op, r.data) THEN row[k] ELSE users[2][k]]
        changed_by == IF r.op = "update_user" THEN session["c1"] ELSE AnnSession
    IN  /\ threads[t].pc = "write"
        /\ IF validated(r.op, r.old_row, r.data)
           THEN /\ users' = [users EXCEPT ![2] = stored]
                /\ user_profile_changes' =
                      _audit_profile_change(user_profile_changes, 2, changed_by,
                                            r.old_row, stored)
                /\ resp' = [Response(r.op, "c1", 200) EXCEPT !.target = 2]
           ELSE /\ resp' = [Response(r.op, "c1", 400) EXCEPT !.target = 2]
                /\ UNCHANGED << users, user_profile_changes >>
        /\ threads' = [threads EXCEPT ![t].pc = "done"]
        /\ UNCHANGED << user_seq, food_items, food_seq, consumption, entry_seq,
                        session, bootstrap_done, has_ownership, call, audit_failures >>

NextRace ==
    \/ \E t \in Threads, e \in ProfileEdits : profile_select(t, e[1], e[2])
    \/ \E t \in Threads : profile_update(t)

SpecRace == InitRace /\ [][NextRace]_vars

(***************************************************************************)
(* The calculators on their own: they keep no state, so a behaviour is one *)
(* call, its arguments drawn from the domains below and its outcome kept   *)
(* in call.                                                                *)
(***************************************************************************)
\* 66 in = 167.64 cm and 150 lb = 68.04 kg; 60 kg at 130 cm with
\* weight_gain is the tie 2415 / 10; the largest values pass the clamp
Heights == {0 - 170, 0, 1, 66, 130, 170, 171, 250, 700, NaN, Infinity}

Weights == {0 - 70, 0, 1, 30, 60, 70, 71, 150, 300, NaN, Infinity}

HeightUnits == {"cm", "in", "ft"}

WeightUnits == {"kg", "lb", "st"}

DietaryGoals == {"weight_loss", "maintain", "eat_healthy", "weight_gain", "bulk"}

Finite(value) == value \notin {NaN, Infinity}

\* nan and inf spread through the products and the sum, and round() of
\* either raises (ValueError, OverflowError) instead of returning
Raises(height_value, weight_value) == ~ Finite(height_value) \/ ~ Finite(weight_value)

call_target_calories(h, hu, w, wu, goal) ==
    /\ call = NoCall
    /\ call' = [ fn |-> "calculate_target_calories",
                 height_value |-> h, height_unit |-> hu,
                 weight_value |-> w, weight_unit |-> wu, dietary_goal |-> goal,
                 raised |-> Raises(h, w),
                 result |-> IF Raises(h, w) THEN 0
                            ELSE calculate_target_calories(h, hu, w, wu, goal) ]
    /\ UNCHANGED << users, user_seq, food_items, food_seq, consumption, entry_seq,
                    user_profile_changes, session, bootstrap_done, has_ownership,
                    threads, audit_failures, resp >>

Calories == {0 - 100, 0, 1, 3, 40, 100, 1000}

Proteins == {0, 1, 10, 30, 400}

Fibers == {0, 5, 100}

Sugars == {0, 2, 10, 100}

call_health_score(calories, protein, fiber, sugars) ==
    /\ call = NoCall
    /\ call' = [ fn |-> "calculate_health_score",
                 calories |-> calories, protein |-> protein,
                 fiber |-> fiber, sugars |-> sugars,
                 raised |-> FALSE,
                 result |-> calculate_health_score(calories, protein, fiber, sugars) ]
    /\ UNCHANGED << users, user_seq, food_items, food_seq, consumption, entry_seq,
                    user_profile_changes, session, bootstrap_done, has_ownership,
                    threads, audit_failures, resp >>

NextCalc ==
    \/ \E h \in Heights, hu \in HeightUnits, w \in Weights, wu \in WeightUnits,
          goal \in DietaryGoals : call_target_calories(h, hu, w, wu, goal)
    \/ \E calories \in Calories, protein \in Proteins, fiber \in Fibers,
          sugars \in Sugars : call_health_score(calories, protein, fiber, sugars)

SpecCalc == Init(TRUE) /\ [][NextCalc]_vars

(***************************************************************************)
(* Properties                                                              *)
(***************************************************************************)
\* the session the latest request came with; no handler below changes it
Caller == session[resp.sid]

AllPayloads == ProfileData \cup CompleteData \cup AdminData \cup CreateData

HasBody(row) ==
    /\ row.height_value \notin {NoneNum, AbsentNum, NotNumber}
    /\ row.weight_value \notin {NoneNum, AbsentNum, NotNumber}

\* C1: every stored user whose height and weight are both set has the
\* target_calories that calculate_target_calories gives for the stored
\* height, units, weight and goal, and no stored target_calories is the
\* value a payload carried.
C1_TargetDerived ==
    \A i \in DOMAIN users :
        /\ HasBody(users[i]) =>
             users[i].target_calories =
                calculate_target_calories(users[i].height_value, users[i].height_unit,
                                          users[i].weight_value, users[i].weight_unit,
                                          users[i].dietary_goal)
        /\ \A d \in AllPayloads :
             d.target_calories # AbsentNum =>
                users[i].target_calories # d.target_calories

\* an admin's update of a user has gone through and left 170 cm / 70 kg;
\* every update_user payload that does so carries a target_calories too
C1_Witness ==
    /\ resp.op = "update_user"
    /\ resp.status = 200
    /\ resp.target \in DOMAIN users
    /\ users[resp.target].height_value = 170
    /\ users[resp.target].weight_value = 70
    /\ users[resp.target].target_calories # 2000

ProfileWrites == {"update_profile", "complete_profile", "update_user"}

\* the audit record appended by the step, for the tracked keys diff of user t
AuditAppended(t, diff) ==
    /\ Len(user_profile_changes') = Len(user_profile_changes) + 1
    /\ SubSeq(user_profile_changes', 1, Len(user_profile_changes)) = user_profile_changes
    /\ LET record == user_profile_changes'[Len(user_profile_changes')]
       IN  /\ record.user_id = t
           /\ DOMAIN record.changed_fields = diff
           /\ \A k \in diff :
                /\ record.changed_fields[k].from = users[t][k]
                /\ record.changed_fields[k].to = users'[t][k]

\* C3 as stated, a field differing when its printed values differ: a
\* successful profile mutation writes no audit record when no tracked field
\* differs between the row before and the row after, and otherwise exactly
\* one, whose map has exactly the differing keys with the old value as from
\* and the new value as to.
C3_AuditExact ==
    [][ (/\ resp'.op \in ProfileWrites
         /\ resp'.status = 200
         /\ resp'.target \in DOMAIN users)
        => LET t    == resp'.target
               diff == {k \in Tracked :
                          pystr(k, users[t][k]) # pystr(k, users'[t][k])}
           IN  IF diff = {}
               THEN user_profile_changes' = user_profile_changes
               ELSE AuditAppended(t, diff) ]_vars

\* C3 amended: a field differing when its printed values differ, a
\* successful profile mutation with no differing tracked field writes no
\* audit record; with some, it appends exactly one record with exactly those
\* keys, except that complete_profile still succeeds, with no record, when
\* the audit write fails.
C3_AuditByPrintedValue ==
    [][ (/\ resp'.op \in ProfileWrites
         /\ resp'.status = 200
         /\ resp'.target \in DOMAIN users)
        => LET t    == resp'.target
               diff == {k \in Tracked :
                          pystr(k, users[t][k]) # pystr(k, users'[t][k])}
           IN  IF diff = {}
               THEN user_profile_changes' = user_profile_changes
               ELSE \/ AuditAppended(t, diff)
                    \/ /\ resp'.op = "complete_profile"
                       /\ audit_failures' = audit_failures + 1
                       /\ user_profile_changes' = user_profile_changes ]_vars

\* a successful profile mutation has left a record of several fields
C3_Witness ==
    /\ resp.op \in ProfileWrites
    /\ resp.status = 200
    /\ Len(user_profile_changes) = 1
    /\ user_profile_changes[1].user_id = resp.target
    /\ Cardinality(DOMAIN user_profile_changes[1].changed_fields) >= 2

\* height under 100 cm or over 250 cm, weight under 30 kg or over 300 kg
OutOfRange(row) ==
    _unrealistic(_to_cm(row.height_value, row.height_unit),
                 _to_kg(row.weight_value, row.weight_unit))

\* the response that asks for confirmation, with the preview for row, and
\* no user row and no audit record touched
AsksConfirmation(row) ==
    /\ resp'.status = 400
    /\ resp'.requires_confirmation
    /\ resp'.preview_target_calories =
          calculate_target_calories(row.height_value, row.height_unit,
                                    row.weight_value, row.weight_unit,
                                    row.dietary_goal)
    /\ users' = users
    /\ user_profile_changes' = user_profile_changes

\* the row a profile request asks for: the stored row under the payload
Resulting(old_row, d) ==
    [k \in DOMAIN old_row |->
        IF k \in ProfileKeys /\ Given(d, k) THEN d[k] ELSE old_row[k]]

\* the row a create_user or complete_profile payload spells out
Spelled(d) ==
    [ height_value |-> d.height_value, height_unit |-> d.height_unit,
      weight_value |-> d.weight_value, weight_unit |-> d.weight_unit,
      dietary_goal |-> IF d.dietary_goal = Absent THEN "maintain" ELSE d.dietary_goal ]

IsAdmin(c) == session[c] # NoSession /\ session[c].role = "admin"

\* the gate of C4 on one step, for the requests that satisfy valid: an
\* unconfirmed request for an out-of-range row is turned back, a confirmed
\* one is not
GateStep(row, d, valid) ==
    (valid /\ HasBody(row) /\ OutOfRange(row))
    => IF d.confirm_unrealistic
       THEN ~resp'.requires_confirmation /\ resp'.status # 400
       ELSE AsksConfirmation(row)

ValidUnits(d) ==
    /\ d.height_unit \in {"cm", "in"}
    /\ d.weight_unit \in {"kg", "lb"}
    /\ d.dietary_goal \in {"weight_gain", "weight_loss", "maintain", "eat_healthy"}

\* the gate on the step of one request that passes the handler's own
\* validation: a resulting height and weight other than zero in
\* update_profile and update_user, all required keys in create_user and
\* complete_profile, and known units and goal in complete_profile.
\* any_payload: update_user is held to the gate whatever keys it carries.
Gate(any_payload) ==
    LET c == resp'.sid
    IN  /\ (resp'.op = "update_profile" /\ session[c] # NoSession
            /\ session[c].user_id \in DOMAIN users)
           => \A d \in ProfileData :
                 update_profile(c, d) =>
                    LET row == Resulting(users[session[c].user_id], d)
                    IN  GateStep(row, d, /\ ~NoData(d)
                                         /\ row.height_value # 0
                                         /\ row.weight_value # 0)
        /\ (resp'.op = "complete_profile" /\ session[c] # NoSession
            /\ session[c].user_id \in DOMAIN users)
           => \A d \in CompleteData :
                 complete_profile(c, d) =>
                    GateStep(Spelled(d), d,
                             /\ \A k \in RequiredComplete : InData(d, k)
                             /\ ValidUnits(d))
        /\ (resp'.op = "create_user" /\ IsAdmin(c))
           => \A d \in CreateData :
                 create_user(c, d) =>
                    GateStep(Spelled(d), d,
                             /\ InData(d, "username")
                             /\ \A k \in RequiredProfile : InData(d, k))
        /\ (resp'.op = "update_user" /\ IsAdmin(c))
           => \A d \in AdminData, i \in DOMAIN users :
                 update_user(c, i, d) =>
                    LET row == Resulting(users[i], d)
                    IN  GateStep(row, d,
                                 /\ ~NoData(d)
                                 /\ any_payload \/ \E k \in ProfileKeys : InData(d, k)
                                 /\ row.height_value # 0
                                 /\ row.weight_value # 0)

C5_PinnedToSession ==
    [][ \A e \in DOMAIN consumption' \ DOMAIN consumption :
           /\ resp'.op = "create_consumption"
           /\ session[resp'.sid] # NoSession
           /\ session[resp'.sid].role # "admin"
                => consumption'[e].user_id = session[resp'.sid].user_id ]_vars

\* a user who is not an admin has logged an entry with a payload that
\* named user 1; portion_size 2 comes with that payload alone
C5_Witness ==
    /\ resp.op = "create_consumption"
    /\ resp.status = 201
    /\ Caller.role = "user"
    /\ Caller.user_id # 1
    /\ consumption[resp.target].portion_size = 2
    /\ consumption[resp.target].user_id = Caller.user_id

UserManagement == {"create_user", "list_users", "get_user", "update_user", "delete_user"}

\* C6: a user-management request answers 401 without a session and 403 with
\* a session that is not an admin's, and then reads out no user row and
\* leaves users, their entries and the audit trail as the request found
\* them; rows are read out or changed only for an admin.
C6_AdminOnly ==
    [][ resp'.op \in UserManagement
        => LET c      == resp'.sid
               before == _bootstrap_once.users
               effect == \/ users' # before
                         \/ consumption' # consumption
                         \/ user_profile_changes' # user_profile_changes
                         \/ resp'.rows # {}
           IN  /\ session[c] = NoSession => resp'.status = 401
               /\ (session[c] # NoSession /\ session[c].role # "admin")
                     => resp'.status = 403
               /\ resp'.status \in {401, 403} => ~effect
               /\ effect => IsAdmin(c) ]_vars

\* a user who is not an admin has asked to delete a user
C6_Witness ==
    /\ resp.op = "delete_user"
    /\ resp.status = 403
    /\ Caller.role = "user"
    /\ DOMAIN users # {}

\* C2 as stated: whenever a request creates an entry or changes its
\* portion_size or one of its six nutrition fields, each nutrition field is
\* the food item's value times the entry's portion_size.
C2_SnapshotIsProduct ==
    [][ \A e \in DOMAIN consumption' :
           (\/ e \notin DOMAIN consumption
            \/ \E k \in Nutrition \cup {"portion_size"} :
                  consumption'[e][k] # consumption[e][k])
           => \A k \in Nutrition :
                 consumption'[e][k] =
                    food_items[consumption'[e].food_id][k] * consumption'[e].portion_size
      ]_vars

\* the caller of the latest request is neither an admin nor the creator of
\* food item f
OtherCaller(c, f) ==
    /\ session[c] # NoSession
    /\ session[c].role # "admin"
    /\ f \in DOMAIN food_items
    /\ food_items[f].created_by_user_id # session[c].user_id

\* C7 as stated: update_food and delete_food on an item that the caller
\* neither created nor, as an admin, may change anyway are refused (403, or
\* 400 for an empty body) and leave the item as it was.
C7_OwnerOrAdmin ==
    [][ (resp'.op \in {"update_food", "delete_food"} /\ OtherCaller(resp'.sid, resp'.target))
        => /\ resp'.status \in {400, 403}
           /\ food_items' = food_items ]_vars

EntryRequests == {"get_consumption", "update_consumption", "delete_consumption"}

\* the caller is neither an admin nor the user the entry e belongs to
OtherUser(c, e) ==
    /\ session[c] # NoSession
    /\ session[c].role # "admin"
    /\ e \in DOMAIN consumption
    /\ consumption[e].user_id # session[c].user_id

\* C8 as stated: get_consumption, update_consumption and delete_consumption
\* by a caller who is neither an admin nor the entry's user answer 403,
\* return no entry and leave the entry unchanged.
C8_Always403 ==
    [][ (resp'.op \in EntryRequests /\ OtherUser(resp'.sid, resp'.target))
        => /\ resp'.status = 403
           /\ resp'.rows = {}
           /\ consumption' = consumption ]_vars

\* C8 amended: such a request returns no entry and leaves the entry
\* unchanged, and answers 403, except that update_consumption with an empty
\* body answers 400, before the entry is looked up.  An entry is returned,
\* changed or removed only for an admin or its user.
C8_OwnerOrAdmin ==
    [][ resp'.op \in EntryRequests
        => LET c == resp'.sid
               e == resp'.target
           IN  /\ OtherUser(c, e)
                  => /\ resp'.rows = {}
                     /\ consumption' = consumption
                     /\ \/ resp'.status = 403
                        \/ /\ resp'.status = 400
                           /\ update_consumption(c, e, NoEntry)
               /\ (resp'.rows # {} \/ consumption' # consumption)
                  => /\ e \in DOMAIN consumption
                     /\ \/ IsAdmin(c)
                        \/ consumption[e].user_id = session[c].user_id ]_vars

\* a user has asked to delete an entry of somebody else
C8_Witness ==
    /\ resp.op = "delete_consumption"
    /\ resp.status = 403
    /\ Caller.role = "user"
    /\ resp.target \in DOMAIN consumption
    /\ consumption[resp.target].user_id # Caller.user_id

PerUser == {"list_consumption", "get_user_progress", "get_daily_health_score",
            "get_overall_health_score", "get_meal_distribution", "get_popular_foods"}

\* the rows a per-user request has to be computed from for the user me,
\* whatever user_id it was sent with
OwnRows(op, me) ==
    CASE op = "list_consumption" ->
            { EntriesOf(me), {e \in EntriesOf(me) : consumption[e].meal_type = "lunch"} }
      [] op = "get_meal_distribution" ->
            { {e \in EntriesOf(me) : consumption[e].meal_type # None} }
      [] OTHER -> { EntriesOf(me) }

\* C9: what list_consumption and the per-user analytics answer to a session
\* that is not an admin's is computed from the rows of the session's own
\* user_id alone, and is the same whatever user_id the path or the query
\* string names.
C9_OwnRowsOnly ==
    (resp.op \in PerUser /\ Caller # NoSession /\ Caller.role # "admin")
    => /\ resp.status \in {200, 404}
       /\ resp.rows \subseteq EntriesOf(Caller.user_id)
       /\ resp.rows \in OwnRows(resp.op, Caller.user_id)

\* a user has listed the entries of another user who has some
C9_Witness ==
    /\ resp.op = "list_consumption"
    /\ resp.status = 200
    /\ Caller.role = "user"
    /\ resp.target \in UserIds
    /\ resp.target # Caller.user_id
    /\ EntriesOf(resp.target) # {}
    /\ resp.rows = {}

\* C10 as stated: delete_food on an item that an entry references answers
\* with a 4xx status and leaves the item and the entries as they were.
C10_RestrictIsClientError ==
    [][ (/\ resp'.op = "delete_food"
         /\ resp'.target \in DOMAIN food_items
         /\ Referenced(resp'.target))
        => /\ resp'.status \in 400 .. 499
           /\ food_items' = food_items
           /\ consumption' = consumption ]_vars

\* the columns create_consumption derives from the food item and portion_size
Derived == {"portion_size"} \cup Nutrition \cup {"health_score"}

\* the values of those columns in the row create_consumption stores for
\* food item f and portion_size p
Created(f, p) ==
    [k \in Derived |->
        IF k = "portion_size" THEN p
        ELSE IF k = "health_score"
        THEN calculate_health_score(food_items[f].calories * p, food_items[f].protein * p,
                                    food_items[f].fiber * p, food_items[f].sugars * p)
        ELSE food_items[f][k] * p]

\* C11: update_consumption with a portion_size p leaves the entry with the
\* portion_size, the six nutrition fields and the health_score that
\* create_consumption stores for the entry's food item, as it is now, and p,
\* whatever else the payload carries.
C11_UpdateAsCreate ==
    [][ (resp'.op = "update_consumption" /\ resp'.status = 200)
        => \A d \in EntryPatch :
              (update_consumption(resp'.sid, resp'.target, d) /\ InEntry(d, "portion_size"))
              => LET e == resp'.target
                 IN  \A k \in Derived :
                        consumption'[e][k] =
                           Created(consumption[e].food_id, d.portion_size)[k] ]_vars

\* an entry has been given portion_size 3 by a payload that also named
\* calories 7, after its food item was edited
C11_Witness ==
    /\ resp.op = "update_consumption"
    /\ resp.status = 200
    /\ resp.target \in DOMAIN consumption
    /\ consumption[resp.target].portion_size = 3
    /\ food_items[consumption[resp.target].food_id].protein = 20

\* C12 as stated: every stored entry's health_score is
\* calculate_health_score of the entry's stored calories, protein, fiber and
\* sugars, and so lies between 0 and 100 (in hundredths).
C12_ScoreOfStored ==
    \A e \in DOMAIN consumption :
        /\ consumption[e].health_score =
              calculate_health_score(consumption[e].calories, consumption[e].protein,
                                     consumption[e].fiber, consumption[e].sugars)
        /\ consumption[e].health_score \in 0 .. 100 * 100

\* C13: update_food leaves every consumption entry as it was; the entries
\* that reference the edited item keep their nutrition fields and health_score.
C13_EntriesKept ==
    [][ resp'.op = "update_food"
        => /\ DOMAIN consumption' = DOMAIN consumption
           /\ \A e \in DOMAIN consumption : consumption'[e] = consumption[e] ]_vars

\* a food item has been edited while an entry referenced it, and the entry's
\* protein is no longer the item's protein times the portion
C13_Witness ==
    /\ resp.op = "update_food"
    /\ resp.status = 200
    /\ \E e \in DOMAIN consumption :
          /\ consumption[e].food_id = resp.target
          /\ consumption[e].protein #
                food_items[resp.target].protein * consumption[e].portion_size

\* C14 as stated: once the one-time bootstrap has run, storage holds at
\* least one user with role admin.
C14_AdminExists ==
    bootstrap_done => \E i \in DOMAIN users : users[i].role = "admin"

\* C15 as stated: in update_profile, complete_profile and update_user, a
\* request whose UPDATE of the user row has gone through answers with a
\* success status also when the insert of the audit record fails.
C15_AuditFailureSwallowed ==
    [][ (resp'.op \in ProfileWrites /\ audit_failures' # audit_failures)
        => resp'.status \in 200 .. 299 ]_vars

\* a consumption payload with a required key missing or a portion_size that
\* is not a number
Malformed(d, required) ==
    \/ \E k \in required : ~InEntry(d, k)
    \/ d.portion_size \in {NoneNum, NotNumber}

\* C16 as stated, for create_consumption and update_consumption sent by a
\* logged-in admin: a payload with a missing required field or a malformed
\* portion_size is answered with 400 and nothing is stored.
C16_MalformedIs400 ==
    [][ IsAdmin(resp'.sid)
        => /\ resp'.op = "create_consumption"
              => \A d \in EntryData :
                    (create_consumption(resp'.sid, d)
                       /\ Malformed(d, {"food_id", "date", "user_id"}))
                    => resp'.status = 400 /\ consumption' = consumption
           /\ resp'.op = "update_consumption"
              => \A d \in EntryPatch :
                    (update_consumption(resp'.sid, resp'.target, d)
                       /\ resp'.target \in DOMAIN consumption
                       /\ Malformed(d, {}))
                    => resp'.status = 400 /\ consumption' = consumption ]_vars

C18_SignupIff ==
    [][ resp'.op = "signup"
        => \A cr \in Credentials :
              signup(resp'.sid, cr[1], cr[2])
              => LET c      == resp'.sid
                     before == _bootstrap_once.users
                     valid  == /\ cr[1] # ""
                               /\ \A i \in DOMAIN before : before[i].username # cr[1]
                               /\ Len(cr[2]) >= 6
                     added  == DOMAIN users' \ DOMAIN before
                 IN  IF valid
                     THEN /\ resp'.status = 201
                          /\ Cardinality(added) = 1
                          /\ \A i \in DOMAIN before : users'[i] = before[i]
                          /\ \A i \in added :
                                /\ users'[i].username = cr[1]
                                /\ users'[i].role = "user"
                                /\ users'[i].dietary_goal = "maintain"
                                /\ users'[i].target_calories = 2000
                                /\ session'[c] = [user_id |-> i, username |-> cr[1],
                                                  role |-> "user"]
                     ELSE /\ resp'.status = 400
                          /\ users' = before
                          /\ session' = session ]_vars

\* a signup has gone through, next to the one user stored before it
C18_Witness ==
    /\ resp.op = "signup"
    /\ resp.status = 201
    /\ resp.target \in DOMAIN users
    /\ users[resp.target].role = "user"
    /\ session[resp.sid].user_id = resp.target
    /\ Cardinality(DOMAIN users) = 2

\* the refusal that tells the caller nothing about the account
InvalidCredentials(c) ==
    [ op |-> "login", sid |-> c, status |-> 401, target |-> 0,
      requires_confirmation |-> FALSE, preview_target_calories |-> NoneNum,
      rows |-> {}, error |-> "Invalid username or password" ]

\* C19: login sets the session, to the user_id, username and role of the
\* user of that name, only when the password verifies against the user's
\* stored hash; a login with an unknown username, with a wrong password or
\* for a user with no stored hash gets one and the same 401 response and
\* leaves the session as it was.
C19_LoginVerifies ==
    [][ (resp'.op = "login" /\ resp'.status # 500)
        => \A cr \in LoginCredentials :
              (login(resp'.sid, cr[1], cr[2]) /\ cr[1] # "" /\ cr[2] # "")
              => LET c        == resp'.sid
                     before   == _bootstrap_once.users
                     named    == {i \in DOMAIN before : before[i].username = cr[1]}
                     verified == {i \in named :
                                    before[i].password_hash =
                                       generate_password_hash(cr[2])}
                 IN  IF verified = {}
                     THEN /\ resp' = InvalidCredentials(c)
                          /\ session' = session
                     ELSE /\ resp'.status = 200
                          /\ \E i \in verified :
                                session'[c] = [user_id |-> i,
                                               username |-> before[i].username,
                                               role |-> before[i].role] ]_vars

\* a login has been refused while the user an admin created, who has no
\* stored hash and is the only one of the name bob, is in the table
C19_Witness ==
    /\ resp = InvalidCredentials("c1")
    /\ \E i \in DOMAIN users :
          users[i].username = "bob" /\ users[i].password_hash = NoHash

\* the requests that are not behind require_auth or require_admin
Open == {"start", "login", "logout", "signup", "insert_food_items"}

\* C20: logout clears the session; from then on, until a login or a signup
\* on that session goes through, the session stays cleared and every
\* protected request sent with it answers 401 and changes no stored state.
C20_LoggedOut ==
    [][ LET c == resp'.sid
        IN  /\ resp'.op = "logout" => session'[c] = NoSession
            /\ (session[c] = NoSession /\ session'[c] # NoSession)
                  => /\ resp'.op \in {"login", "signup"}
                     /\ resp'.status \in {200, 201}
            /\ (bootstrap_done /\ session[c] = NoSession /\ resp'.op \notin Open)
                  => /\ resp'.status = 401
                     /\ resp'.rows = {}
                     /\ session' = session
                     /\ << users, user_seq, food_items, food_seq, consumption,
                           entry_seq, user_profile_changes >>' =
                        << users, user_seq, food_items, food_seq, consumption,
                           entry_seq, user_profile_changes >> ]_vars

\* an entry was logged, its user has logged out, and the request to delete
\* the entry has been turned away
C20_Witness ==
    /\ resp.op = "delete_consumption"
    /\ resp.status = 401
    /\ session[resp.sid] = NoSession
    /\ DOMAIN consumption # {}

Analytics == {"get_food_nutrition", "get_top_foods", "get_user_progress",
              "get_daily_health_score", "get_overall_health_score",
              "get_meal_distribution", "get_popular_foods"}

TargetCall == call.fn = "calculate_target_calories"

PairBase == Limb * Limb

PairNorm(hi, lo) == << hi + (lo \div PairBase), lo % PairBase >>

PairAdd(x, y) == PairNorm(x[1] + y[1], x[2] + y[2])

RECURSIVE PairTimes(_, _)
PairTimes(x, n) ==
    IF n = 0 THEN << 0, 0 >>
    ELSE LET half    == PairTimes(x, n \div 2)
             doubled == PairAdd(half, half)
         IN  IF n % 2 = 0 THEN doubled ELSE PairAdd(doubled, x)

PairOf(value, factor) ==
    IF value >= 0 THEN PairTimes(factor, value)
    ELSE LET p == PairTimes(factor, 0 - value) IN PairNorm(0 - p[1], 0 - p[2])

ReferenceCm(h, hu) == PairOf(h, IF hu = "in" THEN << 2, 54000000 >> ELSE << 1, 0 >>)

ReferenceKg(w, wu) == PairOf(w, IF wu = "lb" THEN << 0, 45359237 >> ELSE << 1, 0 >>)

ReferencePercent(goal) ==
    IF goal = "weight_loss" THEN 80 ELSE IF goal = "weight_gain" THEN 115 ELSE 100

\* 100 times (22 x weight_kg + 6 x height_cm) x multiplier
ReferenceRaw(h, hu, w, wu, goal) ==
    PairTimes(PairAdd(PairTimes(ReferenceKg(w, wu), 22), PairTimes(ReferenceCm(h, hu), 6)),
              ReferencePercent(goal))

\* n is a multiple of 10 at distance at most 5 from raw; at distance exactly
\* 5 both neighbours are nearest
NearestTen(raw, n) ==
    /\ n % 10 = 0
    /\ raw[1] >= 100 * n - 500
    /\ \/ raw[1] < 100 * n + 500
       \/ raw[1] = 100 * n + 500 /\ raw[2] = 0

ReferenceClamp(n) == IF n < 1200 THEN 1200 ELSE IF n > 4000 THEN 4000 ELSE n

\* C23: for finite arguments calculate_target_calories is the reference:
\* height in cm (x 2.54 for in), weight in kg (x 0.45359237 for lb),
\* 22 x kg + 6 x cm, times 0.80 / 1.15 / 1.00 by goal, rounded to the nearest
\* multiple of 10, clamped to [1200, 4000]; (170 cm, 70 kg, maintain) is 2560.
C23_IsReference ==
    (TargetCall /\ ~ call.raised)
    => LET raw == ReferenceRaw(call.height_value, call.height_unit,
                               call.weight_value, call.weight_unit, call.dietary_goal)
           k   == raw[1] \div 1000
       IN  /\ \E t \in (k - 1) .. (k + 1) :
                 /\ NearestTen(raw, 10 * t)
                 /\ call.result = ReferenceClamp(10 * t)
           /\ ( /\ call.height_value = 170 /\ call.height_unit = "cm"
                /\ call.weight_value = 70 /\ call.weight_unit = "kg"
                /\ call.dietary_goal = "maintain" ) => call.result = 2560

\* 66 in and 150 lb with weight_loss: 0.80 x 2502.69... = 2002.15..., so 2000
C23_Witness ==
    /\ TargetCall
    /\ call.height_value = 66 /\ call.height_unit = "in"
    /\ call.weight_value = 150 /\ call.weight_unit = "lb"
    /\ call.dietary_goal = "weight_loss"
    /\ call.result = 2000

Target(h, w) ==
    calculate_target_calories(h, call.height_unit, w, call.weight_unit, call.dietary_goal)

\* C24: with the goal and the units fixed, a larger weight at the same height
\* and a larger height at the same weight never give a smaller target.
C24_Monotone ==
    (TargetCall /\ ~ call.raised)
    => /\ \A w \in Weights :
             (Finite(w) /\ w >= call.weight_value)
             => Target(call.height_value, w) >= call.result
       /\ \A h \in Heights :
             (Finite(h) /\ h >= call.height_value)
             => Target(h, call.weight_value) >= call.result

\* a call between the limits, with a larger weight that gives a larger
\* target and a larger height that is lost in the rounding
C24_Witness ==
    /\ TargetCall
    /\ ~ call.raised
    /\ call.result > 1200
    /\ call.result < 4000
    /\ \E w \in Weights :
          /\ Finite(w) /\ w > call.weight_value
          /\ Target(call.height_value, w) > call.result
    /\ \E h \in Heights :
          /\ Finite(h) /\ h > call.height_value
          /\ Target(h, call.weight_value) = call.result

ScoreCall == call.fn = "calculate_health_score"

\* calories times 100 x (70 + 50 x protein / calories + 5 x fiber - 2.5 x sugars)
ScoreTimesCalories ==
    7000 * call.calories + 5000 * call.protein
    + 500 * call.fiber * call.calories - 250 * call.sugars * call.calories

RECURSIVE SumRuns(_)
SumRuns(ts) ==
    IF ts = {} THEN 0
    ELSE LET t == CHOOSE x \in ts : TRUE IN threads[t].runs + SumRuns(ts \ {t})

\* C26 as stated: in every interleaving of the requests of a cold start the
\* body of ensure_admin_bootstrap has executed at most once.
C26_BodyAtMostOnce == SumRuns(Threads) <= 1

\* C26 amended: a request executes the body only if it tested the flag while
\* it was unset, a thread executes it at most once, and the flag is set only
\* after an execution; requests that overlap at cold start may each run it.
C26_OncePerColdRequest ==
    [][ \A t \in Threads :
          /\ (threads[t].pc = "idle" /\ threads'[t].pc # "idle" /\ bootstrap_done)
             => threads'[t].pc = "handler"
          /\ threads'[t].runs <= 1
          /\ bootstrap_done' => SumRuns(Threads) >= 1 ]_vars

\* the body has run in two requests, one admin is stored, and a later
\* request has passed the set flag
C26_Witness ==
    /\ SumRuns(Threads) = 2
    /\ bootstrap_done
    /\ Cardinality(DOMAIN users) = 1
    /\ \E t \in Threads : threads[t].pc = "handler" /\ threads[t].runs = 0

\* the versions food item 1 goes through
FoodVersions == {Oats} \cup {Edited(Oats, data) : data \in FoodEdits}

DerivedFrom(entry, food) ==
    LET snap == Snapshot(food, entry.portion_size)
    IN  \A k \in DOMAIN snap : entry[k] = snap[k]

\* C27: with create_consumption and update_consumption (with portion_size)
\* interleaved with update_food on the same food item, the six nutrition
\* fields and health_score of every stored entry come from one version of
\* the food item, never from a mixture of two.
C27_OneVersion ==
    \A e \in DOMAIN consumption :
        \E food \in FoodVersions : DerivedFrom(consumption[e], food)

\* update_food has committed between the SELECT and the write of a request
\* in flight, and an entry written that way is stored
C27_Witness ==
    /\ resp.op \in {"create_consumption", "update_consumption"}
    /\ \E e \in DOMAIN consumption :
          /\ ~ DerivedFrom(consumption[e], food_items[1])
          /\ \E food \in FoodVersions : DerivedFrom(consumption[e], food)
    /\ \E t \in Threads :
          /\ threads[t].pc \in {"insert", "update"}
          /\ threads[t].read.food # food_items[1]

\* C28: however update_profile, complete_profile and update_user requests
\* on the same user interleave, the stored target_calories is
\* calculate_target_calories of the stored height, units, weight and goal
\* whenever height and weight are set.
C28_TargetConsistent ==
    HasBody(users[2]) => users[2].target_calories = RowTarget(users[2])

\* a request has written over a row that changed after the request read it
C28_Witness ==
    /\ resp.status = 200
    /\ Len(user_profile_changes) >= 2
    /\ \E i, j \in DOMAIN user_profile_changes :
          /\ i < j
          /\ "weight_value" \in DOMAIN user_profile_changes[i].changed_fields
          /\ "weight_value" \in DOMAIN user_profile_changes[j].changed_fields
          /\ user_profile_changes[j].changed_fields["weight_value"].from
               # user_profile_changes[i].changed_fields["weight_value"].to
    /\ users[2].target_calories = RowTarget(users[2])

RoleOnly(data) == InData(data, "role") /\ \A k \in ProfileKeys : ~ InData(data, k)

\* C29 as stated: the UPDATE of an update_user request whose body carries
\* role alone leaves height, weight, units, goal and target_calories as the
\* profile requests wrote them, in every interleaving.
C29_RoleOnlyKeepsProfile ==
    [][ \A t \in Threads :
          ( /\ threads[t].pc = "write"
            /\ threads'[t].pc = "done"
            /\ threads[t].read.op = "update_user"
            /\ RoleOnly(threads[t].read.data) )
          => \A k \in Tracked : users'[2][k] = users[2][k] ]_vars

\* C30: a user-management request is let through exactly when the session
\* it comes with was captured as an admin's, whatever the users table says
\* about that user by then, and only login, signup and logout change what a
\* session holds.
C30_SessionDecides ==
    [][ /\ resp'.op \in UserManagement
           => (resp'.status \in {401, 403}) = ~ IsAdmin(resp'.sid)
        /\ session' # session => resp'.op \in {"login", "signup", "logout"} ]_vars

\* the admin's row has been demoted or deleted, and the session captured
\* before that has been let through to the users
C30_Witness ==
    /\ resp.op = "list_users"
    /\ resp.status = 200
    /\ Caller.role = "admin"
    /\ \/ Caller.user_id \notin DOMAIN users
       \/ users[Caller.user_id].role = "user"

====
